---- MODULE Spec2Model ----
(***************************************************************************)
(* Model of the source-tracked Model Card Collector                        *)
(* (model_card_collector.py, model_card_collector_shared.py).              *)
(*                                                                         *)
(* A Python str is a sequence of one-character strings, so that regular    *)
(* expression search, lower(), strip(), split(), slicing and substring     *)
(* tests are computed character by character as CPython computes them.     *)
(* A Python value is a record [type, v]; v is the str() form of a scalar   *)
(* and the element sequence of a list.  A dict is a function whose domain  *)
(* is its key set.                                                         *)
(***************************************************************************)
EXTENDS Integers, Sequences, FiniteSets, TLC

VARIABLES
    mode,               \* which entry point of the program is exercised
    card_content,       \* argument card_content of the extractor functions
    card_metadata,      \* argument metadata of the extractor functions
    called,             \* functions that have returned or raised
    params_result,      \* outcome of extract_parameters_from_card
    training_result,    \* outcome of extract_training_data_from_card
    paper_sources,      \* self.paper_sources
    family_arg,         \* argument family of get_paper_reference
    paper_result,       \* outcome of get_paper_reference
    model_architectures,\* self.model_architectures (the object ARCHITECTURE_DEFS)
    encoder_only,       \* the three lists of collect_all_architectures
    decoder_only,
    encoder_decoder,
    pc,                 \* position of collect_all_architectures in its loops
    outcomes,           \* what the services did for each open model processed so far
    written,            \* markdown files written to the output directory
    frames,             \* the value collect_all_architectures returned
    invocations,        \* extractor calls made so far by the collection run
    lookups,            \* get_paper_reference calls made so far by the collection run
    model_name_arg,     \* argument model_name of classify_architecture
    classify_result     \* what classify_architecture returned

extractVars == <<card_content, card_metadata, params_result, training_result>>
paperVars == <<family_arg, paper_result>>
collectVars == <<model_architectures, encoder_only, decoder_only, encoder_decoder, pc, outcomes,
                 written, frames, invocations, lookups>>
classifyVars == <<model_name_arg, classify_result>>
vars == <<mode, called, paper_sources, extractVars, paperVars, collectVars, classifyVars>>

---------------------------------------------------------------------------
(* Python values *)

None == [type |-> "NoneType", v |-> <<>>]
Str(s) == [type |-> "str", v |-> s]
IntVal(digits) == [type |-> "int", v |-> digits]
List(xs) == [type |-> "list", v |-> xs]

\* {}
EmptyDict == [k \in {} |-> None]

\* bool(x): None, "" and [] are falsy
Truthy(x) == ~(x.type = "NoneType" \/ (x.type \in {"str", "list"} /\ x.v = <<>>))

\* str(x) of a scalar
PyStr(x) == x.v

Min(a, b) == IF a <= b THEN a ELSE b
Max(a, b) == IF a >= b THEN a ELSE b

UpperChars == <<"A","B","C","D","E","F","G","H","I","J","K","L","M","N","O","P","Q","R","S","T","U","V","W","X","Y","Z">>
LowerChars == <<"a","b","c","d","e","f","g","h","i","j","k","l","m","n","o","p","q","r","s","t","u","v","w","x","y","z">>

LowerOf == [c \in {UpperChars[i] : i \in DOMAIN UpperChars} |->
               LowerChars[CHOOSE i \in DOMAIN UpperChars : UpperChars[i] = c]]

\* str.lower() on one character
Lower(c) == IF c \in DOMAIN LowerOf THEN LowerOf[c] ELSE c

\* str.lower()
LowerStr(s) == [i \in 1..Len(s) |-> Lower(s[i])]

\* needle in hay
Contains(hay, needle) ==
    \E i \in 0..(Len(hay) - Len(needle)) : SubSeq(hay, i + 1, i + Len(needle)) = needle

\* s[a:b] for 0 <= a, 0 <= b (Python clips both at len(s))
Slice(s, a, b) == SubSeq(s, Min(a, Len(s)) + 1, Min(b, Len(s)))

\* s.replace(old, new) for single characters
Replace(s, old, new) == [i \in 1..Len(s) |-> IF s[i] = old THEN new ELSE s[i]]

Digits == {"0","1","2","3","4","5","6","7","8","9"}
\* \s of the re module on the characters that occur in the inputs
Whitespace == {" ", "\t", "\n", "\r", "\f"}

RECURSIVE LStrip(_)
LStrip(s) == IF s # <<>> /\ Head(s) \in Whitespace THEN LStrip(Tail(s)) ELSE s
RECURSIVE RStrip(_)
RStrip(s) == IF s # <<>> /\ s[Len(s)] \in Whitespace THEN RStrip(SubSeq(s, 1, Len(s) - 1)) ELSE s
\* str.strip()
Strip(s) == RStrip(LStrip(s))

\* s.split('\n')[0]
FirstLine(s) ==
    LET newlines == {k \in 1..Len(s) : s[k] = "\n"}
    IN  IF newlines = {} THEN s
        ELSE SubSeq(s, 1, (CHOOSE k \in newlines : \A h \in 1..(k - 1) : s[h] # "\n") - 1)

RECURSIVE Concat(_, _)
\* sep.join(items) for items that are all str
Concat(sep, items) ==
    IF items = <<>> THEN <<>>
    ELSE IF Len(items) = 1 THEN items[1].v
    ELSE items[1].v \o sep \o Concat(sep, Tail(items))

---------------------------------------------------------------------------
(* Outcome of a call: a returned (value, source) pair or a raised exception *)

NoExc == [type |-> "", msg |-> <<>>]
Return(value, source) == [raised |-> FALSE, exc |-> NoExc, value |-> value, source |-> source]
Raise(type, msg) == [raised |-> TRUE, exc |-> [type |-> type, msg |-> msg], value |-> <<>>, source |-> <<>>]
NotCalled == [raised |-> FALSE, exc |-> NoExc, value |-> <<>>, source |-> <<>>]

DigitChars == <<"0","1","2","3","4","5","6","7","8","9">>

\* type(x).__name__
TypeName(x) ==
    CASE x.type = "int" -> <<"i","n","t">>
      [] x.type = "NoneType" -> <<"N","o","n","e","T","y","p","e">>
      [] x.type = "list" -> <<"l","i","s","t">>
      [] x.type = "str" -> <<"s","t","r">>

\* sep.join(items): TypeError at the first item that is not a str
Join(sep, items) ==
    IF \E i \in 1..Len(items) : items[i].type # "str"
    THEN LET i == CHOOSE k \in 1..Len(items) :
                      /\ items[k].type # "str"
                      /\ \A j \in 1..(k - 1) : items[j].type = "str"
         IN  Raise("TypeError",
                   <<"s","e","q","u","e","n","c","e"," ","i","t","e","m"," ">> \o <<DigitChars[i]>> \o <<":"," ","e","x","p","e","c","t","e","d"," ","s","t","r"," ","i","n","s","t","a","n","c","e",","," ">>
                       \o TypeName(items[i]) \o <<" ","f","o","u","n","d">>)
    ELSE Return(Concat(sep, items), <<>>)

---------------------------------------------------------------------------
(* re.search with re.IGNORECASE (and re.DOTALL for the wildcard):          *)
(* a pattern is a sequence of elements, matched by backtracking with       *)
(* greedy repetition, leftmost start first, as the re module does.         *)

\* a literal, kept in lower case: under re.IGNORECASE it is compared to the lowered text
Lit(s) == [op |-> "lit", s |-> LowerStr(s), cls |-> {}, any |-> FALSE, min |-> 0, max |-> 0, sub |-> <<>>]
\* max = -1: unbounded
Rep(cls, min, max) == [op |-> "rep", s |-> <<>>, cls |-> cls, any |-> FALSE, min |-> min, max |-> max, sub |-> <<>>]
\* .{min,max} under re.DOTALL
Dot(min, max) == [op |-> "rep", s |-> <<>>, cls |-> {}, any |-> TRUE, min |-> min, max |-> max, sub |-> <<>>]
\* (?:sub)?
Opt(sub) == [op |-> "opt", s |-> <<>>, cls |-> {}, any |-> FALSE, min |-> 0, max |-> 0, sub |-> sub]
\* opening parenthesis of capture group 1
Group1 == [op |-> "group", s |-> <<>>, cls |-> {}, any |-> FALSE, min |-> 0, max |-> 0, sub |-> <<>>]

InClass(c, e) == e.any \/ \E d \in e.cls : Lower(d) = Lower(c)

RECURSIVE RunLen(_, _, _)
\* number of consecutive characters of e's class from offset p, at most e.max
RunLen(e, text, p) ==
    IF e.any
    THEN IF e.max < 0 THEN Max(0, Len(text) - p) ELSE Max(0, Min(e.max, Len(text) - p))
    ELSE IF p < Len(text) /\ InClass(text[p + 1], e) /\ e.max # 0
    THEN 1 + RunLen([e EXCEPT !.max = IF e.max < 0 THEN e.max ELSE e.max - 1], text, p + 1)
    ELSE 0

NoMatch == [ok |-> FALSE, start |-> 0, end |-> 0, g1 |-> 0]

RECURSIVE MatchAt(_, _, _, _, _)
RECURSIVE TryRep(_, _, _, _, _, _, _)
\* the match of pat at offset p that the backtracking matcher finds first;
\* s is the offset where the whole match starts, g the start of group 1
MatchAt(pat, text, s, p, g) ==
    IF pat = <<>> THEN [ok |-> TRUE, start |-> s, end |-> p, g1 |-> g]
    ELSE LET e == Head(pat)
             rest == Tail(pat)
         IN  CASE e.op = "lit" ->
                    IF /\ p + Len(e.s) <= Len(text)
                       /\ \A k \in 1..Len(e.s) : Lower(text[p + k]) = e.s[k]
                    THEN MatchAt(rest, text, s, p + Len(e.s), g)
                    ELSE NoMatch
               [] e.op = "rep" -> TryRep(e, rest, text, s, p, RunLen(e, text, p), g)
               [] e.op = "opt" ->
                    LET r == MatchAt(e.sub \o rest, text, s, p, g)
                    IN  IF r.ok THEN r ELSE MatchAt(rest, text, s, p, g)
               [] e.op = "group" -> MatchAt(rest, text, s, p, p)
TryRep(e, rest, text, s, p, k, g) ==
    IF k < e.min THEN NoMatch
    ELSE LET r == MatchAt(rest, text, s, p + k, g)
         IN  IF r.ok THEN r ELSE TryRep(e, rest, text, s, p, k - 1, g)

RECURSIVE SearchIn(_, _, _, _)
\* the match with the leftmost start among the offsets lo..hi
SearchIn(pat, text, lo, hi) ==
    IF lo > hi THEN NoMatch
    ELSE IF lo = hi THEN MatchAt(pat, text, lo, lo, lo)
    ELSE LET mid == (lo + hi) \div 2
             r == SearchIn(pat, text, lo, mid)
         IN  IF r.ok THEN r ELSE SearchIn(pat, text, mid + 1, hi)

\* the scan of re.search over the start offsets s, s + 1, ..., len(text)
SearchFrom(pat, text, s) == SearchIn(pat, text, s, Len(text))

\* re.search(pat, text, re.IGNORECASE | re.DOTALL)
Search(pat, text) == SearchFrom(pat, text, 0)

\* (\d+(?:\.\d+)?)
Number == <<Group1, Rep(Digits, 1, -1), Opt(<<Lit(<<".">>), Rep(Digits, 1, -1)>>)>>
\* [BM]
Unit == Rep({"B", "M"}, 1, 1)
\* [:\s]+
ColonSpace == Rep({":"} \cup Whitespace, 1, -1)

---------------------------------------------------------------------------
(* ModelCollector.extract_parameters_from_card *)

CARD_UNAVAILABLE == <<"M","o","d","e","l"," ","C","a","r","d"," ","n","i","c","h","t"," ","v","e","r","f","ü","g","b","a","r">>

\* characters of context kept on each side of a match
ContextChars == 50

patterns == <<
    \* (\d+(?:\.\d+)?)\s*[BM]\s+parameters
    [pattern |-> Number \o <<Rep(Whitespace, 0, -1), Unit, Rep(Whitespace, 1, -1), Lit(<<"p","a","r","a","m","e","t","e","r","s">>)>>,
     source_desc |-> <<"M","o","d","e","l"," ","C","a","r","d"," ","t","e","x","t">>],
    \* parameters[:\s]+(\d+(?:\.\d+)?)\s*[BM]
    [pattern |-> <<Lit(<<"p","a","r","a","m","e","t","e","r","s">>), ColonSpace>> \o Number \o <<Rep(Whitespace, 0, -1), Unit>>,
     source_desc |-> <<"M","o","d","e","l"," ","C","a","r","d"," ","p","a","r","a","m","e","t","e","r","s"," ","s","e","c","t","i","o","n">>],
    \* (\d+(?:\.\d+)?)[BM]\s+params
    [pattern |-> Number \o <<Unit, Rep(Whitespace, 1, -1), Lit(<<"p","a","r","a","m","s">>)>>,
     source_desc |-> <<"M","o","d","e","l"," ","C","a","r","d"," ","p","a","r","a","m","s"," ","m","e","n","t","i","o","n">>],
    \* model size[:\s]+(\d+(?:\.\d+)?)\s*[BM]
    [pattern |-> <<Lit(<<"m","o","d","e","l"," ","s","i","z","e">>), ColonSpace>> \o Number \o <<Rep(Whitespace, 0, -1), Unit>>,
     source_desc |-> <<"M","o","d","e","l"," ","C","a","r","d"," ","s","i","z","e"," ","s","p","e","c","i","f","i","c","a","t","i","o","n">>] >>

SIZES == {<<"b","a","s","e">>, <<"l","a","r","g","e">>, <<"s","m","a","l","l">>, <<"7","b">>, <<"1","3","b">>, <<"7","0","b">>}

\* the card is missing: "not card_content or card_content == sentinel"
CardMissing(content) == ~Truthy(content) \/ content = Str(CARD_UNAVAILABLE)

\* ParamMatchResult quoting the context as it stands in the card, newlines included
ParamMatchResultRawContext(i, text, match) ==
    LET value == Slice(text, match.start, match.end)
        start == Max(0, match.start - ContextChars)
        end == Min(Len(text), match.end + ContextChars)
        context == Slice(text, start, end)
    IN  Return(value, patterns[i].source_desc \o <<":"," ","'">> \o context \o <<".",".",".","'">>)

\* value and source returned for a match of patterns[i]
ParamMatchResult(i, text, match) ==
    LET value == Slice(text, match.start, match.end)
        start == Max(0, match.start - ContextChars)
        end == Min(Len(text), match.end + ContextChars)
        context == Replace(Slice(text, start, end), "\n", " ")
    IN  Return(value, patterns[i].source_desc \o <<":"," ","'">> \o context \o <<".",".",".","'">>)

\* TagLoop without the return inside the loop: the last matching tag decides
TagLoopLastMatch(tags, i) ==
    LET matching == {k \in i..Len(tags) : \E size \in SIZES : Contains(LowerStr(PyStr(tags[k])), size)}
    IN  IF matching = {}
        THEN Return(<<"N","o","t"," ","s","p","e","c","i","f","i","e","d"," ","i","n"," ","M","o","d","e","l"," ","C","a","r","d">>, <<"M","o","d","e","l"," ","C","a","r","d"," ","c","h","e","c","k","e","d",","," ","n","o"," ","p","a","r","a","m","e","t","e","r"," ","c","o","u","n","t"," ","f","o","u","n","d">>)
        ELSE Return(<<"I","n","f","e","r","r","e","d"," ","f","r","o","m"," ","t","a","g","s",":"," ">> \o PyStr(tags[CHOOSE k \in matching : \A h \in matching : h <= k]),
                    <<"M","o","d","e","l"," ","m","e","t","a","d","a","t","a"," ","t","a","g","s">>)

RECURSIVE TagLoop(_, _)
\* for tag in metadata['tags'], from the i-th tag on
TagLoop(tags, i) ==
    IF i > Len(tags)
    THEN Return(<<"N","o","t"," ","s","p","e","c","i","f","i","e","d"," ","i","n"," ","M","o","d","e","l"," ","C","a","r","d">>, <<"M","o","d","e","l"," ","C","a","r","d"," ","c","h","e","c","k","e","d",","," ","n","o"," ","p","a","r","a","m","e","t","e","r"," ","c","o","u","n","t"," ","f","o","u","n","d">>)
    ELSE IF \E size \in SIZES : Contains(LowerStr(PyStr(tags[i])), size)
         THEN Return(<<"I","n","f","e","r","r","e","d"," ","f","r","o","m"," ","t","a","g","s",":"," ">> \o PyStr(tags[i]), <<"M","o","d","e","l"," ","m","e","t","a","d","a","t","a"," ","t","a","g","s">>)
         ELSE TagLoop(tags, i + 1)

\* ParamFallback returning the sentinel of a missing card when no tag list is given
ParamFallbackNotFound(metadata) ==
    IF "tags" \in DOMAIN metadata /\ Truthy(metadata["tags"])
    THEN TagLoop(metadata["tags"].v, 1)
    ELSE Return(<<"N","o","t"," ","f","o","u","n","d"," ","i","n"," ","M","o","d","e","l"," ","C","a","r","d">>, <<"M","o","d","e","l"," ","C","a","r","d"," ","n","o","t"," ","a","v","a","i","l","a","b","l","e">>)

\* the tag fallback and the final return
ParamFallback(metadata) ==
    IF "tags" \in DOMAIN metadata /\ Truthy(metadata["tags"])
    THEN TagLoop(metadata["tags"].v, 1)
    ELSE Return(<<"N","o","t"," ","s","p","e","c","i","f","i","e","d"," ","i","n"," ","M","o","d","e","l"," ","C","a","r","d">>, <<"M","o","d","e","l"," ","C","a","r","d"," ","c","h","e","c","k","e","d",","," ","n","o"," ","p","a","r","a","m","e","t","e","r"," ","c","o","u","n","t"," ","f","o","u","n","d">>)

\* ParamLoop deciding by position in the text (one alternation of the four patterns)
\* instead of by the order of the list
ParamLoopLeftmost(i, text, metadata) ==
    LET matching == {k \in i..Len(patterns) : Search(patterns[k].pattern, text).ok}
        StartOf(k) == Search(patterns[k].pattern, text).start
    IN  IF matching = {} THEN ParamFallback(metadata)
        ELSE LET k == CHOOSE k \in matching : \A j \in matching :
                          StartOf(k) < StartOf(j) \/ (StartOf(k) = StartOf(j) /\ k <= j)
             IN  ParamMatchResult(k, text, Search(patterns[k].pattern, text))

RECURSIVE ParamLoop(_, _, _)
\* for pattern, source_desc in patterns, from the i-th pattern on
ParamLoop(i, text, metadata) ==
    IF i > Len(patterns) THEN ParamFallback(metadata)
    ELSE LET match == Search(patterns[i].pattern, text)
         IN  IF match.ok THEN ParamMatchResult(i, text, match)
             ELSE ParamLoop(i + 1, text, metadata)

\* extract_parameters_from_card consulting the tags of a missing card
extract_parameters_tags_first(content, metadata) ==
    IF CardMissing(content)
    THEN IF ParamFallback(metadata).source = <<"M","o","d","e","l"," ","m","e","t","a","d","a","t","a"," ","t","a","g","s">>
         THEN ParamFallback(metadata)
         ELSE Return(<<"N","o","t"," ","f","o","u","n","d"," ","i","n"," ","M","o","d","e","l"," ","C","a","r","d">>, <<"M","o","d","e","l"," ","C","a","r","d"," ","n","o","t"," ","a","v","a","i","l","a","b","l","e">>)
    ELSE ParamLoop(1, content.v, metadata)

extract_parameters_from_card(content, metadata) ==
    IF CardMissing(content)
    THEN Return(<<"N","o","t"," ","f","o","u","n","d"," ","i","n"," ","M","o","d","e","l"," ","C","a","r","d">>, <<"M","o","d","e","l"," ","C","a","r","d"," ","n","o","t"," ","a","v","a","i","l","a","b","l","e">>)
    ELSE ParamLoop(1, content.v, metadata)

---------------------------------------------------------------------------
(* ModelCollector.extract_training_data_from_card *)

\* metadata['datasets'][:5]
MaxDatasetsJoined == 5
\* (.{0,500}) of the two heading patterns
SectionCapture == 500
\* (.{0,300}) of the three inline patterns
InlineCapture == 300
\* text.split('\n')[0][:200]
MaxTrainingChars == 200

sections == <<
    \* ## Training Data\s*\n(.{0,500})
    [pattern |-> <<Lit(<<"#","#"," ","T","r","a","i","n","i","n","g"," ","D","a","t","a">>), Rep(Whitespace, 0, -1), Lit(<<"\n">>), Group1, Dot(0, SectionCapture)>>,
     source_desc |-> <<"M","o","d","e","l"," ","C","a","r","d",":"," ","'","T","r","a","i","n","i","n","g"," ","D","a","t","a","'"," ","s","e","c","t","i","o","n">>],
    \* ## Dataset\s*\n(.{0,500})
    [pattern |-> <<Lit(<<"#","#"," ","D","a","t","a","s","e","t">>), Rep(Whitespace, 0, -1), Lit(<<"\n">>), Group1, Dot(0, SectionCapture)>>,
     source_desc |-> <<"M","o","d","e","l"," ","C","a","r","d",":"," ","'","D","a","t","a","s","e","t","'"," ","s","e","c","t","i","o","n">>],
    \* Training Data[:\s]+(.{0,300})
    [pattern |-> <<Lit(<<"T","r","a","i","n","i","n","g"," ","D","a","t","a">>), ColonSpace, Group1, Dot(0, InlineCapture)>>,
     source_desc |-> <<"M","o","d","e","l"," ","C","a","r","d",":"," ","T","r","a","i","n","i","n","g"," ","D","a","t","a"," ","d","e","s","c","r","i","p","t","i","o","n">>],
    \* Trained on[:\s]+(.{0,300})
    [pattern |-> <<Lit(<<"T","r","a","i","n","e","d"," ","o","n">>), ColonSpace, Group1, Dot(0, InlineCapture)>>,
     source_desc |-> <<"M","o","d","e","l"," ","C","a","r","d",":"," ","T","r","a","i","n","i","n","g"," ","d","e","s","c","r","i","p","t","i","o","n">>],
    \* Pre-training data[:\s]+(.{0,300})
    [pattern |-> <<Lit(<<"P","r","e","-","t","r","a","i","n","i","n","g"," ","d","a","t","a">>), ColonSpace, Group1, Dot(0, InlineCapture)>>,
     source_desc |-> <<"M","o","d","e","l"," ","C","a","r","d",":"," ","P","r","e","-","t","r","a","i","n","i","n","g"," ","d","a","t","a"," ","s","e","c","t","i","o","n">>] >>

\* TruncatedCapture cutting to 200 characters before cutting to the first line and
\* without stripping
TruncatedCaptureUnstripped(text, match) ==
    FirstLine(Slice(Slice(text, match.g1, match.end), 0, MaxTrainingChars))

\* match.group(1).strip().split('\n')[0][:200]
TruncatedCapture(text, match) ==
    Slice(FirstLine(Strip(Slice(text, match.g1, match.end))), 0, MaxTrainingChars)

\* 'datasets' in metadata and metadata['datasets']
HasDatasets(metadata) == "datasets" \in DOMAIN metadata /\ Truthy(metadata["datasets"])

\* ", ".join(metadata['datasets'][:5]) returned with the metadata provenance
DatasetsResult(metadata) ==
    LET joined == Join(<<","," ">>, Slice(metadata["datasets"].v, 0, MaxDatasetsJoined))
    IN  IF joined.raised THEN joined
        ELSE Return(joined.value, <<"H","u","g","g","i","n","g"," ","F","a","c","e"," ","m","e","t","a","d","a","t","a",":"," ","'","d","a","t","a","s","e","t","s","'"," ","f","i","e","l","d">>)

\* the metadata fallback and the final return after the section loop
TrainingFallback(metadata) ==
    IF HasDatasets(metadata) THEN DatasetsResult(metadata)
    ELSE Return(<<"N","o","t"," ","s","p","e","c","i","f","i","e","d"," ","i","n"," ","M","o","d","e","l"," ","C","a","r","d">>, <<"M","o","d","e","l"," ","C","a","r","d"," ","c","h","e","c","k","e","d",","," ","n","o"," ","t","r","a","i","n","i","n","g"," ","d","a","t","a"," ","i","n","f","o"," ","f","o","u","n","d">>)

RECURSIVE SectionLoopFirstMatch(_, _, _)
\* SectionLoop leaving the loop at the first pattern that matches, whatever it captured
SectionLoopFirstMatch(i, text, metadata) ==
    IF i > Len(sections) THEN TrainingFallback(metadata)
    ELSE LET match == Search(sections[i].pattern, text)
         IN  IF match.ok
             THEN IF TruncatedCapture(text, match) # <<>>
                  THEN Return(TruncatedCapture(text, match), sections[i].source_desc)
                  ELSE TrainingFallback(metadata)
             ELSE SectionLoopFirstMatch(i + 1, text, metadata)

RECURSIVE SectionLoop(_, _, _)
\* for pattern, source_desc in sections, from the i-th pattern on
SectionLoop(i, text, metadata) ==
    IF i > Len(sections) THEN TrainingFallback(metadata)
    ELSE LET match == Search(sections[i].pattern, text)
         IN  IF match.ok /\ TruncatedCapture(text, match) # <<>>
             THEN Return(TruncatedCapture(text, match), sections[i].source_desc)
             ELSE SectionLoop(i + 1, text, metadata)

extract_training_data_from_card(content, metadata) ==
    IF CardMissing(content)
    THEN IF HasDatasets(metadata) THEN DatasetsResult(metadata)
         ELSE Return(<<"N","o","t"," ","s","p","e","c","i","f","i","e","d">>, <<"M","o","d","e","l"," ","C","a","r","d"," ","n","o","t"," ","a","v","a","i","l","a","b","l","e">>)
    ELSE SectionLoop(1, content.v, metadata)

---------------------------------------------------------------------------
(* model_card_collector_shared.PAPER_SOURCES: family -> paper reference *)
PAPER_SOURCES ==
    (<<"B","E","R","T">> :> [paper_url |-> <<"h","t","t","p","s",":","/","/","a","r","x","i","v",".","o","r","g","/","a","b","s","/","1","8","1","0",".","0","4","8","0","5">>,
        paper_title |-> <<"B","E","R","T",":"," ","P","r","e","-","t","r","a","i","n","i","n","g"," ","o","f"," ","D","e","e","p"," ","B","i","d","i","r","e","c","t","i","o","n","a","l"," ","T","r","a","n","s","f","o","r","m","e","r","s">>,
        authors |-> <<"D","e","v","l","i","n"," ","e","t"," ","a","l",".",","," ","2","0","1","9">>,
        venue |-> <<"N","A","A","C","L">>])
    @@ (<<"R","o","B","E","R","T","a">> :> [paper_url |-> <<"h","t","t","p","s",":","/","/","a","r","x","i","v",".","o","r","g","/","a","b","s","/","1","9","0","7",".","1","1","6","9","2">>,
        paper_title |-> <<"R","o","B","E","R","T","a",":"," ","A"," ","R","o","b","u","s","t","l","y"," ","O","p","t","i","m","i","z","e","d"," ","B","E","R","T"," ","P","r","e","t","r","a","i","n","i","n","g"," ","A","p","p","r","o","a","c","h">>,
        authors |-> <<"L","i","u"," ","e","t"," ","a","l",".",","," ","2","0","1","9">>,
        venue |-> <<"a","r","X","i","v">>])
    @@ (<<"S","c","i","B","E","R","T">> :> [paper_url |-> <<"h","t","t","p","s",":","/","/","a","r","x","i","v",".","o","r","g","/","a","b","s","/","1","9","0","3",".","1","0","6","7","6">>,
        paper_title |-> <<"S","c","i","B","E","R","T",":"," ","A"," ","P","r","e","t","r","a","i","n","e","d"," ","L","a","n","g","u","a","g","e"," ","M","o","d","e","l"," ","f","o","r"," ","S","c","i","e","n","t","i","f","i","c"," ","T","e","x","t">>,
        authors |-> <<"B","e","l","t","a","g","y"," ","e","t"," ","a","l",".",","," ","2","0","1","9">>,
        venue |-> <<"E","M","N","L","P">>])
    @@ (<<"B","i","o","B","E","R","T">> :> [paper_url |-> <<"h","t","t","p","s",":","/","/","a","r","x","i","v",".","o","r","g","/","a","b","s","/","1","9","0","1",".","0","8","7","4","6">>,
        paper_title |-> <<"B","i","o","B","E","R","T",":"," ","a"," ","p","r","e","-","t","r","a","i","n","e","d"," ","b","i","o","m","e","d","i","c","a","l"," ","l","a","n","g","u","a","g","e"," ","r","e","p","r","e","s","e","n","t","a","t","i","o","n"," ","m","o","d","e","l">>,
        authors |-> <<"L","e","e"," ","e","t"," ","a","l",".",","," ","2","0","2","0">>,
        venue |-> <<"B","i","o","i","n","f","o","r","m","a","t","i","c","s">>])
    @@ (<<"E","L","E","C","T","R","A">> :> [paper_url |-> <<"h","t","t","p","s",":","/","/","a","r","x","i","v",".","o","r","g","/","a","b","s","/","2","0","0","3",".","1","0","5","5","5">>,
        paper_title |-> <<"E","L","E","C","T","R","A",":"," ","P","r","e","-","t","r","a","i","n","i","n","g"," ","T","e","x","t"," ","E","n","c","o","d","e","r","s"," ","a","s"," ","D","i","s","c","r","i","m","i","n","a","t","o","r","s">>,
        authors |-> <<"C","l","a","r","k"," ","e","t"," ","a","l",".",","," ","2","0","2","0">>,
        venue |-> <<"I","C","L","R">>])
    @@ (<<"L","l","a","m","a">> :> [paper_url |-> <<"h","t","t","p","s",":","/","/","a","r","x","i","v",".","o","r","g","/","a","b","s","/","2","3","0","7",".","0","9","2","8","8">>,
        paper_title |-> <<"L","l","a","m","a"," ","2",":"," ","O","p","e","n"," ","F","o","u","n","d","a","t","i","o","n"," ","a","n","d"," ","F","i","n","e","-","T","u","n","e","d"," ","C","h","a","t"," ","M","o","d","e","l","s">>,
        authors |-> <<"T","o","u","v","r","o","n"," ","e","t"," ","a","l",".",","," ","2","0","2","3">>,
        venue |-> <<"a","r","X","i","v">>])
    @@ (<<"L","l","a","m","a","-","3">> :> [paper_url |-> <<"h","t","t","p","s",":","/","/","a","r","x","i","v",".","o","r","g","/","a","b","s","/","2","4","0","7",".","2","1","7","8","3">>,
        paper_title |-> <<"T","h","e"," ","L","l","a","m","a"," ","3"," ","H","e","r","d"," ","o","f"," ","M","o","d","e","l","s">>,
        authors |-> <<"M","e","t","a"," ","A","I",","," ","2","0","2","4">>,
        venue |-> <<"a","r","X","i","v">>])
    @@ (<<"T","5">> :> [paper_url |-> <<"h","t","t","p","s",":","/","/","a","r","x","i","v",".","o","r","g","/","a","b","s","/","1","9","1","0",".","1","0","6","8","3">>,
        paper_title |-> <<"E","x","p","l","o","r","i","n","g"," ","t","h","e"," ","L","i","m","i","t","s"," ","o","f"," ","T","r","a","n","s","f","e","r"," ","L","e","a","r","n","i","n","g"," ","w","i","t","h"," ","T","5">>,
        authors |-> <<"R","a","f","f","e","l"," ","e","t"," ","a","l",".",","," ","2","0","2","0">>,
        venue |-> <<"J","M","L","R">>])
    @@ (<<"B","A","R","T">> :> [paper_url |-> <<"h","t","t","p","s",":","/","/","a","r","x","i","v",".","o","r","g","/","a","b","s","/","1","9","1","0",".","1","3","4","6","1">>,
        paper_title |-> <<"B","A","R","T",":"," ","D","e","n","o","i","s","i","n","g"," ","S","e","q","u","e","n","c","e","-","t","o","-","S","e","q","u","e","n","c","e"," ","P","r","e","-","t","r","a","i","n","i","n","g">>,
        authors |-> <<"L","e","w","i","s"," ","e","t"," ","a","l",".",","," ","2","0","2","0">>,
        venue |-> <<"A","C","L">>])
    @@ (<<"m","T","5">> :> [paper_url |-> <<"h","t","t","p","s",":","/","/","a","r","x","i","v",".","o","r","g","/","a","b","s","/","2","0","1","0",".","1","1","9","3","4">>,
        paper_title |-> <<"m","T","5",":"," ","A"," ","m","a","s","s","i","v","e","l","y"," ","m","u","l","t","i","l","i","n","g","u","a","l"," ","t","e","x","t","-","t","o","-","t","e","x","t"," ","t","r","a","n","s","f","o","r","m","e","r">>,
        authors |-> <<"X","u","e"," ","e","t"," ","a","l",".",","," ","2","0","2","1">>,
        venue |-> <<"N","A","A","C","L">>])
    @@ (<<"G","P","T","-","4">> :> [paper_url |-> <<"h","t","t","p","s",":","/","/","c","d","n",".","o","p","e","n","a","i",".","c","o","m","/","p","a","p","e","r","s","/","g","p","t","-","4","-","s","y","s","t","e","m","-","c","a","r","d",".","p","d","f">>,
        paper_title |-> <<"G","P","T","-","4"," ","S","y","s","t","e","m"," ","C","a","r","d">>,
        authors |-> <<"O","p","e","n","A","I",","," ","2","0","2","3">>,
        venue |-> <<"O","p","e","n","A","I">>])
    @@ (<<"G","P","T","-","4","o">> :> [paper_url |-> <<"h","t","t","p","s",":","/","/","c","d","n",".","o","p","e","n","a","i",".","c","o","m","/","g","p","t","-","4","o","-","s","y","s","t","e","m","-","c","a","r","d",".","p","d","f">>,
        paper_title |-> <<"G","P","T","-","4","o"," ","S","y","s","t","e","m"," ","C","a","r","d">>,
        authors |-> <<"O","p","e","n","A","I",","," ","2","0","2","4">>,
        venue |-> <<"O","p","e","n","A","I">>])
    @@ (<<"C","l","a","u","d","e">> :> [paper_url |-> <<"h","t","t","p","s",":","/","/","a","s","s","e","t","s",".","a","n","t","h","r","o","p","i","c",".","c","o","m","/","m","/","6","1","e","7","d","2","7","f","8","c","8","f","5","9","1","9","/","o","r","i","g","i","n","a","l","/","C","l","a","u","d","e","-","3","-","M","o","d","e","l","-","C","a","r","d",".","p","d","f">>,
        paper_title |-> <<"C","l","a","u","d","e"," ","3"," ","M","o","d","e","l"," ","C","a","r","d">>,
        authors |-> <<"A","n","t","h","r","o","p","i","c",","," ","2","0","2","4">>,
        venue |-> <<"A","n","t","h","r","o","p","i","c">>])
    @@ (<<"G","e","m","i","n","i">> :> [paper_url |-> <<"h","t","t","p","s",":","/","/","s","t","o","r","a","g","e",".","g","o","o","g","l","e","a","p","i","s",".","c","o","m","/","d","e","e","p","m","i","n","d","-","m","e","d","i","a","/","g","e","m","i","n","i","/","g","e","m","i","n","i","_","1","_","r","e","p","o","r","t",".","p","d","f">>,
        paper_title |-> <<"G","e","m","i","n","i",":"," ","A"," ","F","a","m","i","l","y"," ","o","f"," ","H","i","g","h","l","y"," ","C","a","p","a","b","l","e"," ","M","u","l","t","i","m","o","d","a","l"," ","M","o","d","e","l","s">>,
        authors |-> <<"G","o","o","g","l","e"," ","D","e","e","p","M","i","n","d",","," ","2","0","2","3">>,
        venue |-> <<"G","o","o","g","l","e">>])

(* model_card_collector_shared.ARCHITECTURE_DEFS: an ordered dict, kept as the
   sequence of its (family, info) items in insertion order *)
ARCHITECTURE_DEFS == <<
    [family |-> <<"B","E","R","T">>,
     info |-> ("architecture" :> <<"E","n","c","o","d","e","r","-","o","n","l","y">>)
          @@ ("description" :> <<"B","i","d","i","r","e","c","t","i","o","n","a","l"," ","E","n","c","o","d","e","r"," ","R","e","p","r","e","s","e","n","t","a","t","i","o","n","s"," ","f","r","o","m"," ","T","r","a","n","s","f","o","r","m","e","r","s">>)
          @@ ("huggingface" :> <<
                ("id" :> <<"g","o","o","g","l","e","-","b","e","r","t","/","b","e","r","t","-","b","a","s","e","-","u","n","c","a","s","e","d">>) @@ ("version" :> <<"b","a","s","e">>),
                ("id" :> <<"g","o","o","g","l","e","-","b","e","r","t","/","b","e","r","t","-","l","a","r","g","e","-","u","n","c","a","s","e","d">>) @@ ("version" :> <<"l","a","r","g","e">>) >>)
          @@ ("year" :> 2018)
          @@ ("organization" :> <<"G","o","o","g","l","e">>)],
    [family |-> <<"R","o","B","E","R","T","a">>,
     info |-> ("architecture" :> <<"E","n","c","o","d","e","r","-","o","n","l","y">>)
          @@ ("description" :> <<"R","o","b","u","s","t","l","y"," ","O","p","t","i","m","i","z","e","d"," ","B","E","R","T"," ","P","r","e","t","r","a","i","n","i","n","g"," ","A","p","p","r","o","a","c","h">>)
          @@ ("huggingface" :> <<
                ("id" :> <<"F","a","c","e","b","o","o","k","A","I","/","r","o","b","e","r","t","a","-","b","a","s","e">>) @@ ("version" :> <<"b","a","s","e">>),
                ("id" :> <<"F","a","c","e","b","o","o","k","A","I","/","r","o","b","e","r","t","a","-","l","a","r","g","e">>) @@ ("version" :> <<"l","a","r","g","e">>) >>)
          @@ ("year" :> 2019)
          @@ ("organization" :> <<"F","a","c","e","b","o","o","k"," ","A","I">>)],
    [family |-> <<"S","c","i","B","E","R","T">>,
     info |-> ("architecture" :> <<"E","n","c","o","d","e","r","-","o","n","l","y">>)
          @@ ("description" :> <<"B","E","R","T"," ","v","a","r","i","a","n","t"," ","f","o","r"," ","s","c","i","e","n","t","i","f","i","c"," ","t","e","x","t">>)
          @@ ("huggingface" :> <<
                ("id" :> <<"a","l","l","e","n","a","i","/","s","c","i","b","e","r","t","_","s","c","i","v","o","c","a","b","_","u","n","c","a","s","e","d">>) @@ ("version" :> <<"s","c","i","v","o","c","a","b">>) >>)
          @@ ("year" :> 2019)
          @@ ("organization" :> <<"A","l","l","e","n"," ","A","I">>)],
    [family |-> <<"B","i","o","B","E","R","T">>,
     info |-> ("architecture" :> <<"E","n","c","o","d","e","r","-","o","n","l","y">>)
          @@ ("description" :> <<"B","E","R","T"," ","f","o","r"," ","b","i","o","m","e","d","i","c","a","l"," ","t","e","x","t"," ","m","i","n","i","n","g">>)
          @@ ("huggingface" :> <<
                ("id" :> <<"d","m","i","s","-","l","a","b","/","b","i","o","b","e","r","t","-","v","1",".","1">>) @@ ("version" :> <<"v","1",".","1">>) >>)
          @@ ("year" :> 2019)
          @@ ("organization" :> <<"D","M","I","S"," ","L","a","b">>)],
    [family |-> <<"E","L","E","C","T","R","A">>,
     info |-> ("architecture" :> <<"E","n","c","o","d","e","r","-","o","n","l","y">>)
          @@ ("description" :> <<"E","f","f","i","c","i","e","n","t","l","y"," ","L","e","a","r","n","i","n","g"," ","a","n"," ","E","n","c","o","d","e","r">>)
          @@ ("huggingface" :> <<
                ("id" :> <<"g","o","o","g","l","e","/","e","l","e","c","t","r","a","-","b","a","s","e","-","d","i","s","c","r","i","m","i","n","a","t","o","r">>) @@ ("version" :> <<"b","a","s","e">>) >>)
          @@ ("year" :> 2020)
          @@ ("organization" :> <<"G","o","o","g","l","e">>)],
    [family |-> <<"G","P","T","-","4">>,
     info |-> ("architecture" :> <<"D","e","c","o","d","e","r","-","o","n","l","y">>)
          @@ ("description" :> <<"G","e","n","e","r","a","t","i","v","e"," ","P","r","e","-","t","r","a","i","n","e","d"," ","T","r","a","n","s","f","o","r","m","e","r"," ","4">>)
          @@ ("versions" :> <<
                ("name" :> <<"G","P","T","-","4">>) @@ ("released" :> <<"2","0","2","3","-","0","3","-","1","4">>),
                ("name" :> <<"G","P","T","-","4"," ","T","u","r","b","o">>) @@ ("released" :> <<"2","0","2","3","-","1","1","-","0","6">>),
                ("name" :> <<"G","P","T","-","4","o">>) @@ ("released" :> <<"2","0","2","4","-","0","5","-","1","3">>) >>)
          @@ ("year" :> 2023)
          @@ ("organization" :> <<"O","p","e","n","A","I">>)],
    [family |-> <<"C","l","a","u","d","e">>,
     info |-> ("architecture" :> <<"D","e","c","o","d","e","r","-","o","n","l","y">>)
          @@ ("description" :> <<"C","o","n","s","t","i","t","u","t","i","o","n","a","l"," ","A","I"," ","l","a","n","g","u","a","g","e"," ","m","o","d","e","l">>)
          @@ ("versions" :> <<
                ("name" :> <<"C","l","a","u","d","e"," ","2">>) @@ ("released" :> <<"2","0","2","3","-","0","7">>),
                ("name" :> <<"C","l","a","u","d","e"," ","3"," ","H","a","i","k","u">>) @@ ("released" :> <<"2","0","2","4","-","0","3","-","0","4">>),
                ("name" :> <<"C","l","a","u","d","e"," ","3"," ","S","o","n","n","e","t">>) @@ ("released" :> <<"2","0","2","4","-","0","3","-","0","4">>),
                ("name" :> <<"C","l","a","u","d","e"," ","3"," ","O","p","u","s">>) @@ ("released" :> <<"2","0","2","4","-","0","3","-","0","4">>),
                ("name" :> <<"C","l","a","u","d","e"," ","3",".","5"," ","S","o","n","n","e","t">>) @@ ("released" :> <<"2","0","2","4","-","0","6","-","2","0">>) >>)
          @@ ("year" :> 2023)
          @@ ("organization" :> <<"A","n","t","h","r","o","p","i","c">>)],
    [family |-> <<"L","l","a","m","a">>,
     info |-> ("architecture" :> <<"D","e","c","o","d","e","r","-","o","n","l","y">>)
          @@ ("description" :> <<"L","a","r","g","e"," ","L","a","n","g","u","a","g","e"," ","M","o","d","e","l"," ","M","e","t","a"," ","A","I">>)
          @@ ("huggingface" :> <<
                ("id" :> <<"m","e","t","a","-","l","l","a","m","a","/","L","l","a","m","a","-","2","-","7","b","-","h","f">>) @@ ("version" :> <<"L","l","a","m","a"," ","2"," ","7","B">>),
                ("id" :> <<"m","e","t","a","-","l","l","a","m","a","/","L","l","a","m","a","-","2","-","1","3","b","-","h","f">>) @@ ("version" :> <<"L","l","a","m","a"," ","2"," ","1","3","B">>),
                ("id" :> <<"m","e","t","a","-","l","l","a","m","a","/","L","l","a","m","a","-","2","-","7","0","b","-","h","f">>) @@ ("version" :> <<"L","l","a","m","a"," ","2"," ","7","0","B">>),
                ("id" :> <<"m","e","t","a","-","l","l","a","m","a","/","L","l","a","m","a","-","3",".","1","-","8","B">>) @@ ("version" :> <<"L","l","a","m","a"," ","3",".","1"," ","8","B">>) >>)
          @@ ("year" :> 2023)
          @@ ("organization" :> <<"M","e","t","a">>)],
    [family |-> <<"G","e","m","i","n","i">>,
     info |-> ("architecture" :> <<"D","e","c","o","d","e","r","-","o","n","l","y">>)
          @@ ("description" :> <<"M","u","l","t","i","m","o","d","a","l"," ","A","I"," ","m","o","d","e","l"," ","b","y"," ","G","o","o","g","l","e">>)
          @@ ("versions" :> <<
                ("name" :> <<"G","e","m","i","n","i"," ","1",".","0"," ","P","r","o">>) @@ ("released" :> <<"2","0","2","3","-","1","2","-","0","6">>),
                ("name" :> <<"G","e","m","i","n","i"," ","1",".","5"," ","P","r","o">>) @@ ("released" :> <<"2","0","2","4","-","0","2","-","1","5">>),
                ("name" :> <<"G","e","m","i","n","i"," ","1",".","5"," ","F","l","a","s","h">>) @@ ("released" :> <<"2","0","2","4","-","0","5","-","1","4">>),
                ("name" :> <<"G","e","m","i","n","i"," ","2",".","0"," ","F","l","a","s","h">>) @@ ("released" :> <<"2","0","2","4","-","1","2">>) >>)
          @@ ("year" :> 2023)
          @@ ("organization" :> <<"G","o","o","g","l","e"," ","D","e","e","p","M","i","n","d">>)],
    [family |-> <<"T","5">>,
     info |-> ("architecture" :> <<"E","n","c","o","d","e","r","-","D","e","c","o","d","e","r">>)
          @@ ("description" :> <<"T","e","x","t","-","t","o","-","T","e","x","t"," ","T","r","a","n","s","f","e","r"," ","T","r","a","n","s","f","o","r","m","e","r">>)
          @@ ("huggingface" :> <<
                ("id" :> <<"g","o","o","g","l","e","-","t","5","/","t","5","-","s","m","a","l","l">>) @@ ("version" :> <<"s","m","a","l","l">>),
                ("id" :> <<"g","o","o","g","l","e","-","t","5","/","t","5","-","b","a","s","e">>) @@ ("version" :> <<"b","a","s","e">>),
                ("id" :> <<"g","o","o","g","l","e","-","t","5","/","t","5","-","l","a","r","g","e">>) @@ ("version" :> <<"l","a","r","g","e">>),
                ("id" :> <<"g","o","o","g","l","e","-","t","5","/","t","5","-","3","b">>) @@ ("version" :> <<"3","B">>),
                ("id" :> <<"g","o","o","g","l","e","-","t","5","/","t","5","-","1","1","b">>) @@ ("version" :> <<"1","1","B">>) >>)
          @@ ("year" :> 2019)
          @@ ("organization" :> <<"G","o","o","g","l","e">>)],
    [family |-> <<"B","A","R","T">>,
     info |-> ("architecture" :> <<"E","n","c","o","d","e","r","-","D","e","c","o","d","e","r">>)
          @@ ("description" :> <<"B","i","d","i","r","e","c","t","i","o","n","a","l"," ","a","n","d"," ","A","u","t","o","-","R","e","g","r","e","s","s","i","v","e"," ","T","r","a","n","s","f","o","r","m","e","r">>)
          @@ ("huggingface" :> <<
                ("id" :> <<"f","a","c","e","b","o","o","k","/","b","a","r","t","-","b","a","s","e">>) @@ ("version" :> <<"b","a","s","e">>),
                ("id" :> <<"f","a","c","e","b","o","o","k","/","b","a","r","t","-","l","a","r","g","e">>) @@ ("version" :> <<"l","a","r","g","e">>) >>)
          @@ ("year" :> 2019)
          @@ ("organization" :> <<"F","a","c","e","b","o","o","k"," ","A","I">>)],
    [family |-> <<"m","T","5">>,
     info |-> ("architecture" :> <<"E","n","c","o","d","e","r","-","D","e","c","o","d","e","r">>)
          @@ ("description" :> <<"M","u","l","t","i","l","i","n","g","u","a","l"," ","T","5">>)
          @@ ("huggingface" :> <<
                ("id" :> <<"g","o","o","g","l","e","/","m","t","5","-","s","m","a","l","l">>) @@ ("version" :> <<"s","m","a","l","l">>),
                ("id" :> <<"g","o","o","g","l","e","/","m","t","5","-","b","a","s","e">>) @@ ("version" :> <<"b","a","s","e">>) >>)
          @@ ("year" :> 2020)
          @@ ("organization" :> <<"G","o","o","g","l","e">>)] >>

---------------------------------------------------------------------------
(* ModelCollector.get_paper_reference *)

NA == <<"N","/","A">>
NA_REFERENCE == [paper_url |-> NA, paper_title |-> NA, authors |-> NA, venue |-> NA]

\* outcome of get_paper_reference: a returned reference or a raised exception
RefReturn(ref) == [raised |-> FALSE, exc |-> NoExc, ref |-> ref]
RefRaise(type, msg) == [raised |-> TRUE, exc |-> [type |-> type, msg |-> msg], ref |-> NA_REFERENCE]

\* self.paper_sources.get("Llama-3", self.paper_sources["Llama"]): the default
\* argument is evaluated before get() is called
LlamaFallback(sources) ==
    IF <<"L","l","a","m","a">> \notin DOMAIN sources THEN RefRaise("KeyError", <<"'","L","l","a","m","a","'">>)
    ELSE IF <<"L","l","a","m","a","-","3">> \in DOMAIN sources THEN RefReturn(sources[<<"L","l","a","m","a","-","3">>])
    ELSE RefReturn(sources[<<"L","l","a","m","a">>])

\* get_paper_reference applying the Llama 3.x rule before the exact match
get_paper_reference_special_first(sources, family) ==
    IF Contains(LowerStr(family), <<"l","l","a","m","a","-","3">>) THEN LlamaFallback(sources)
    ELSE IF family \in DOMAIN sources THEN RefReturn(sources[family])
    ELSE RefReturn(NA_REFERENCE)

get_paper_reference(sources, family) ==
    IF family \in DOMAIN sources THEN RefReturn(sources[family])
    ELSE IF Contains(LowerStr(family), <<"l","l","a","m","a","-","3">>) THEN LlamaFallback(sources)
    ELSE RefReturn(NA_REFERENCE)

\* the branch of get_paper_reference that answers a call: the exact match (line 213),
\* the Llama 3.x special case (line 217) or the N/A sentinel (line 220)
PaperBranch(sources, family) ==
    IF family \in DOMAIN sources THEN "exact"
    ELSE IF Contains(LowerStr(family), <<"l","l","a","m","a","-","3">>) THEN "llama-3"
    ELSE "sentinel"

---------------------------------------------------------------------------
(* ModelCollector.classify_architecture *)

RECURSIVE ClassifyFrom(_, _, _)
\* for family, info in self.model_architectures.items(), from the i-th item on
ClassifyFrom(architectures, model_name, i) ==
    IF i > Len(architectures) THEN <<"U","n","k","n","o","w","n">>
    ELSE IF Contains(LowerStr(model_name), LowerStr(architectures[i].family))
         THEN architectures[i].info["architecture"]
         ELSE ClassifyFrom(architectures, model_name, i + 1)

\* classify_architecture letting the last matching family of the table decide
classify_architecture_last_match(architectures, model_name) ==
    LET matching == {i \in 1..Len(architectures) :
                        Contains(LowerStr(model_name), LowerStr(architectures[i].family))}
    IN  IF matching = {} THEN <<"U","n","k","n","o","w","n">>
        ELSE architectures[CHOOSE i \in matching : \A j \in matching : j <= i].info["architecture"]

\* classify_architecture comparing the family name as written (family in model_name)
classify_architecture_case_sensitive(architectures, model_name) ==
    LET matching == {i \in 1..Len(architectures) : Contains(model_name, architectures[i].family)}
    IN  IF matching = {} THEN <<"U","n","k","n","o","w","n">>
        ELSE architectures[CHOOSE i \in matching : \A j \in matching : i <= j].info["architecture"]

classify_architecture(architectures, model_name) == ClassifyFrom(architectures, model_name, 1)

\* self.model_architectures[family]
HasFamily(architectures, family) == \E i \in 1..Len(architectures) : architectures[i].family = family
InfoOf(architectures, family) ==
    architectures[CHOOSE i \in 1..Len(architectures) : architectures[i].family = family].info

---------------------------------------------------------------------------
(* The external collaborators of download_hf_with_sources *)

\* self.access_date, set once by the constructor
ACCESS_DATE == <<"2","0","2","5","-","1","2","-","0","5">>

RECURSIVE Before(_, _)
\* the part of s before the first occurrence of character c
Before(s, c) == IF s = <<>> \/ Head(s) = c THEN <<>> ELSE <<Head(s)>> \o Before(Tail(s), c)

\* info = model_info(model_id): the fields the record reads
ModelInfo(model_id) ==
    [modelId |-> model_id, author |-> Str(Before(model_id, "/")), downloads |-> 0, likes |-> 0,
     pipeline_tag |-> None, library_name |-> None, tags |-> <<<<"t","r","a","n","s","f","o","r","m","e","r","s">>, <<"p","y","t","o","r","c","h">>>>,
     createdAt |-> None, lastModified |-> None]

\* what ModelCard.load(model_id) gives: a card, or an exception
GoodCard ==
    [loaded |-> TRUE,
     content |-> Str(<<"1","1","0","M"," ","p","a","r","a","m","e","t","e","r","s","\n","#","#"," ","D","a","t","a","s","e","t","\n","w","i","k","i","\n">>),
     data |-> ("license" :> Str(<<"m","i","t">>)) @@ ("tags" :> List(<<Str(<<"p","y","t","o","r","c","h">>)>>))]
\* a card whose YAML lists a dataset that is not a string
NumericDatasetCard ==
    [loaded |-> TRUE, content |-> Str(<<"w","e","i","g","h","t","s"," ","o","n","l","y">>),
     data |-> ("datasets" :> List(<<Str(<<"c","4">>), IntVal(<<"2","0","2","3">>)>>))]
NoCard == [loaded |-> FALSE, content |-> None, data |-> EmptyDict]

\* what the services do for one model: fault names the step that raises
Outcome(fault, card) == [fault |-> fault, card |-> card]
DefaultOutcome == Outcome("none", GoodCard)
Deviations == {
    Outcome("none", NoCard), Outcome("none", NumericDatasetCard),
    Outcome("model_info", GoodCard), Outcome("open", GoodCard), Outcome("record", NoCard) }

FaultExc(fault) ==
    CASE fault = "model_info" -> [type |-> "RepositoryNotFoundError", msg |-> <<"4","0","4"," ","C","l","i","e","n","t"," ","E","r","r","o","r">>]
      [] fault = "open" -> [type |-> "OSError", msg |-> <<"[","E","r","r","n","o"," ","2","8","]"," ","N","o"," ","s","p","a","c","e"," ","l","e","f","t"," ","o","n"," ","d","e","v","i","c","e">>]
      [] fault = "record" -> [type |-> "AttributeError", msg |-> <<"'","M","o","d","e","l","I","n","f","o","'"," ","o","b","j","e","c","t"," ","h","a","s"," ","n","o"," ","a","t","t","r","i","b","u","t","e"," ","'","a","u","t","h","o","r","'">>]

---------------------------------------------------------------------------
(* ModelCollector.download_hf_with_sources *)

\* dict.get(key, default)
Get(dict, key, default) == IF key \in DOMAIN dict THEN dict[key] ELSE default

\* x or default
Or(x, default) == IF Truthy(x) THEN x ELSE default

\* the except branch: the error-marker record
ErrorRecord(model_id, exc) ==
    ("Modellname" :> Str(model_id)) @@ ("Fehler" :> Str(exc.msg)) @@ ("Zugriffsdatum" :> Str(ACCESS_DATE))

\* filename = f"{model_id.replace('/', '_')}_{self.access_date}.md"
FileName(model_id) == Replace(model_id, "/", "_") \o <<"_">> \o ACCESS_DATE \o <<".","m","d">>

\* the data dict built when no step raised
HFRecord(architectures, model_dict, info, card_text, metadata, params, training, paper_ref) ==
    ("Modellname" :> Str(info.modelId))
    @@ ("Version" :> Str(Get(model_dict, "version", NA)))
    @@ ("Architektur" :> Str(classify_architecture(architectures, model_dict["id"])))
    @@ ("Anzahl Parameter" :> Str(params.value))
    @@ ("Parameter Quelle" :> Str(params.source))
    @@ ("Trainingsbasis" :> Str(training.value))
    @@ ("Training Data Quelle" :> Str(training.source))
    @@ ("Organisation" :> Or(info.author, Str(<<"U","n","k","n","o","w","n">>)))
    @@ ("Downloads" :> info.downloads)
    @@ ("Likes" :> info.likes)
    @@ ("Pipeline Task" :> Or(info.pipeline_tag, Str(NA)))
    @@ ("Library" :> Or(info.library_name, Str(NA)))
    @@ ("Tags" :> IF info.tags # <<>>
                  THEN Str(Concat(<<","," ">>, [i \in 1..Min(5, Len(info.tags)) |-> Str(info.tags[i])]))
                  ELSE Str(NA))
    @@ ("Erstellt" :> Or(info.createdAt, Str(NA)))
    @@ ("Letzte Änderung" :> Or(info.lastModified, Str(NA)))
    @@ ("Zugriffsdatum" :> Str(ACCESS_DATE))
    @@ ("Model Card Datei" :> Str(FileName(model_dict["id"])))
    @@ ("Quelle" :> Str(<<"H","u","g","g","i","n","g"," ","F","a","c","e">>))
    @@ ("Model Card URL" :> Str(<<"h","t","t","p","s",":","/","/","h","u","g","g","i","n","g","f","a","c","e",".","c","o","/">> \o model_dict["id"]))
    @@ ("Paper Titel" :> Str(paper_ref.paper_title))
    @@ ("Paper Authors" :> Str(paper_ref.authors))
    @@ ("Paper URL" :> Str(paper_ref.paper_url))
    @@ ("Lizenz" :> Get(metadata, "license", Str(NA)))
    @@ ("Sprache" :> Get(metadata, "language", Str(NA)))

\* outcome of the try block (lines 267-358): the data dict, or the exception of the
\* first step that raised; file is the markdown file written by then (<<>>: none)
TryReturn(data, file) == [raised |-> FALSE, exc |-> NoExc, data |-> data, file |-> file]
TryRaise(exc, file) == [raised |-> TRUE, exc |-> exc, data |-> EmptyDict, file |-> file]

\* TryBlock without the inner try/except around ModelCard.load: a card that cannot be
\* loaded raises out of the block
TryBlockCardRequired(architectures, sources, model_dict, outcome) ==
    LET model_id == model_dict["id"]
        family == Get(model_dict, "family", <<"U","n","k","n","o","w","n">>)
        params == extract_parameters_from_card(outcome.card.content, outcome.card.data)
        training == extract_training_data_from_card(outcome.card.content, outcome.card.data)
        paper_ref == get_paper_reference(sources, family)
    IN  IF outcome.fault = "model_info" THEN TryRaise(FaultExc("model_info"), <<>>)
        ELSE IF ~outcome.card.loaded
        THEN TryRaise([type |-> "EntryNotFoundError", msg |-> <<"4","0","4"," ","C","l","i","e","n","t"," ","E","r","r","o","r">>], <<>>)
        ELSE IF params.raised THEN TryRaise(params.exc, <<>>)
        ELSE IF training.raised THEN TryRaise(training.exc, <<>>)
        ELSE IF paper_ref.raised THEN TryRaise(paper_ref.exc, <<>>)
        ELSE IF outcome.fault = "open" THEN TryRaise(FaultExc("open"), <<>>)
        ELSE IF outcome.fault = "record" THEN TryRaise(FaultExc("record"), FileName(model_id))
        ELSE TryReturn(HFRecord(architectures, model_dict, ModelInfo(model_id), outcome.card.content,
                                outcome.card.data, params, training, paper_ref.ref),
                       FileName(model_id))

TryBlock(architectures, sources, model_dict, outcome) ==
    LET model_id == model_dict["id"]
        family == Get(model_dict, "family", <<"U","n","k","n","o","w","n">>)
        card_text == IF outcome.card.loaded THEN outcome.card.content ELSE Str(CARD_UNAVAILABLE)
        metadata == IF outcome.card.loaded THEN outcome.card.data ELSE EmptyDict
        params == extract_parameters_from_card(card_text, metadata)
        training == extract_training_data_from_card(card_text, metadata)
        paper_ref == get_paper_reference(sources, family)
    IN  IF outcome.fault = "model_info" THEN TryRaise(FaultExc("model_info"), <<>>)
        ELSE IF params.raised THEN TryRaise(params.exc, <<>>)
        ELSE IF training.raised THEN TryRaise(training.exc, <<>>)
        ELSE IF paper_ref.raised THEN TryRaise(paper_ref.exc, <<>>)
        ELSE IF outcome.fault = "open" THEN TryRaise(FaultExc("open"), <<>>)
        ELSE IF outcome.fault = "record" THEN TryRaise(FaultExc("record"), FileName(model_id))
        ELSE TryReturn(HFRecord(architectures, model_dict, ModelInfo(model_id), card_text,
                                metadata, params, training, paper_ref.ref),
                       FileName(model_id))

\* the extractor calls the try block makes (lines 283 and 286), in order
ExtractorCalls(model_dict, outcome) ==
    LET card_text == IF outcome.card.loaded THEN outcome.card.content ELSE Str(CARD_UNAVAILABLE)
        metadata == IF outcome.card.loaded THEN outcome.card.data ELSE EmptyDict
    IN  IF outcome.fault = "model_info" THEN <<>>
        ELSE IF extract_parameters_from_card(card_text, metadata).raised
        THEN <<[function |-> "extract_parameters_from_card", model |-> model_dict["id"]]>>
        ELSE <<[function |-> "extract_parameters_from_card", model |-> model_dict["id"]],
               [function |-> "extract_training_data_from_card", model |-> model_dict["id"]]>>

\* the get_paper_reference call the try block makes (line 289), if it gets there
PaperCalls(sources, model_dict, outcome) ==
    LET family == Get(model_dict, "family", <<"U","n","k","n","o","w","n">>)
        card_text == IF outcome.card.loaded THEN outcome.card.content ELSE Str(CARD_UNAVAILABLE)
        metadata == IF outcome.card.loaded THEN outcome.card.data ELSE EmptyDict
    IN  IF outcome.fault = "model_info" THEN <<>>
        ELSE IF extract_parameters_from_card(card_text, metadata).raised THEN <<>>
        ELSE IF extract_training_data_from_card(card_text, metadata).raised THEN <<>>
        ELSE <<[family |-> family, branch |-> PaperBranch(sources, family)]>>

\* the call: the record it returns, the file it wrote, and whether an exception
\* left the function
HFResult(data, file, propagated) == [data |-> data, file |-> file, propagated |-> propagated]

\* download_hf_with_sources without its "except Exception" branch
download_hf_uncaught(architectures, sources, model_dict, outcome) ==
    LET try == TryBlock(architectures, sources, model_dict, outcome)
    IN  HFResult(try.data, try.file, try.raised)

download_hf_with_sources(architectures, sources, model_dict, outcome) ==
    LET try == TryBlock(architectures, sources, model_dict, outcome)
    IN  IF try.raised
        THEN HFResult(ErrorRecord(model_dict["id"], try.exc), try.file, FALSE)
        ELSE HFResult(try.data, try.file, FALSE)

---------------------------------------------------------------------------
(* ModelCollector.download_proprietary_model_with_sources *)

ProprietaryRecord(architectures, model_family, version_info, paper_ref) ==
    LET info == InfoOf(architectures, model_family)
    IN  ("Modellname" :> Str(version_info["name"]))
        @@ ("Version" :> Str(version_info["name"]))
        @@ ("Architektur" :> Str(info["architecture"]))
        @@ ("Anzahl Parameter" :> Str(<<"N","o","t"," ","d","i","s","c","l","o","s","e","d">>))
        @@ ("Parameter Quelle" :> Str(<<"N","o","t"," ","d","i","s","c","l","o","s","e","d"," ","b","y"," ">> \o info["organization"]))
        @@ ("Trainingsbasis" :> Str(<<"S","e","e"," ">> \o paper_ref.paper_title \o <<" ","f","o","r"," ","g","e","n","e","r","a","l"," ","d","e","s","c","r","i","p","t","i","o","n">>))
        @@ ("Training Data Quelle" :> Str(<<"S","y","s","t","e","m"," ","C","a","r","d"," ","/"," ","T","e","c","h","n","i","c","a","l"," ","R","e","p","o","r","t",":"," ">> \o paper_ref.paper_url))
        @@ ("Organisation" :> Str(info["organization"]))
        @@ ("Release-Datum" :> Str(version_info["released"]))
        @@ ("Zugriffsdatum" :> Str(ACCESS_DATE))
        @@ ("Quelle" :> Str(<<"O","f","f","i","c","i","a","l"," ","D","o","c","u","m","e","n","t","a","t","i","o","n">>))
        @@ ("Model Card URL" :> Str(<<"N","/","A"," ","(","p","r","o","p","r","i","e","t","a","r","y",")">>))
        @@ ("Paper Titel" :> Str(paper_ref.paper_title))
        @@ ("Paper Authors" :> Str(paper_ref.authors))
        @@ ("Paper URL" :> Str(paper_ref.paper_url))

\* the get_paper_reference call download_proprietary_model_with_sources makes (line 405)
ProprietaryPaperCalls(sources, model_family, version_info) ==
    IF "name" \notin DOMAIN version_info THEN <<>>
    ELSE <<[family |-> model_family, branch |-> PaperBranch(sources, model_family)]>>

\* download_proprietary_model_with_sources taking its parameter fact from the extractor,
\* as the open-model path does, with the card that a proprietary model does not have
download_proprietary_via_extractor(architectures, sources, model_family, version_info) ==
    LET paper_ref == get_paper_reference(sources, model_family)
        params == extract_parameters_from_card(None, EmptyDict)
    IN  ("Anzahl Parameter" :> Str(params.value)) @@ ("Parameter Quelle" :> Str(params.source))
            @@ ProprietaryRecord(architectures, model_family, version_info, paper_ref.ref)

download_proprietary_model_with_sources(architectures, sources, model_family, version_info) ==
    LET paper_ref == get_paper_reference(sources, model_family)
        name == Get(version_info, "name", <<"U","n","k","n","o","w","n">>)
    IN  IF "name" \notin DOMAIN version_info
        THEN ErrorRecord(model_family \o <<" ","-"," ">> \o name, [type |-> "KeyError", msg |-> <<"'","n","a","m","e","'">>])
        ELSE IF paper_ref.raised
        THEN ErrorRecord(model_family \o <<" ","-"," ">> \o name, paper_ref.exc)
        ELSE IF ~HasFamily(architectures, model_family)
        THEN ErrorRecord(model_family \o <<" ","-"," ">> \o name,
                         [type |-> "KeyError", msg |-> <<"'">> \o model_family \o <<"'">>])
        ELSE IF "released" \notin DOMAIN version_info
        THEN ErrorRecord(model_family \o <<" ","-"," ">> \o name, [type |-> "KeyError", msg |-> <<"'","r","e","l","e","a","s","e","d","'">>])
        ELSE ProprietaryRecord(architectures, model_family, version_info, paper_ref.ref)

---------------------------------------------------------------------------
(* Inputs of the extractor *)

\* card texts are concatenations of at most MaxSegs segments
MaxSegs == 2
\* tag lists have at most MaxTags entries
MaxTags == 2
\* datasets lists have at most MaxDatasets entries
MaxDatasets == 6

Segments == {
    <<"7","B"," ","p","a","r","a","m","e","t","e","r","s">>, <<"p","a","r","a","m","e","t","e","r","s",":"," ","1",".","5"," ","M">>, <<"7","b"," ","p","a","r","a","m","s">>, <<"m","o","d","e","l"," ","s","i","z","e",":"," ","7","B">>,
    <<"7">>, <<" ">>, <<"\n">>, <<"w","i","k","i">>,
    <<"#","#"," ","T","r","a","i","n","i","n","g"," ","D","a","t","a","\n">>, <<"#","#"," ","D","a","t","a","s","e","t","\n">>, <<"T","r","a","i","n","i","n","g"," ","D","a","t","a",":"," ">>,
    <<"T","r","a","i","n","e","d"," ","o","n",":"," ">>, <<"P","r","e","-","t","r","a","i","n","i","n","g"," ","d","a","t","a",":"," ">> }

RECURSIVE TextsOf(_)
\* the texts made of at most n segments
TextsOf(n) ==
    IF n = 0 THEN {<<>>}
    ELSE LET shorter == TextsOf(n - 1)
         IN  shorter \cup {t \o s : t \in shorter, s \in Segments}

CardTexts == TextsOf(MaxSegs)

\* None, the empty card, the sentinel written by download_hf_with_sources, any text
CardInputs == {None, Str(CARD_UNAVAILABLE)} \cup {Str(t) : t \in CardTexts}

TagPool == {Str(<<"p","y","t","o","r","c","h">>), Str(<<"B","E","R","T","-","L","a","r","g","e">>), Str(<<"l","l","a","m","a","-","7","b">>), IntVal(<<"7","0">>)}

RECURSIVE SeqsUpTo(_, _)
SeqsUpTo(S, n) ==
    IF n = 0 THEN {<<>>}
    ELSE LET shorter == SeqsUpTo(S, n - 1)
         IN  shorter \cup {Append(t, x) : t \in shorter, x \in S}

TagLists == SeqsUpTo(TagPool, MaxTags)

DatasetPool == <<Str(<<"w","i","k","i","t","e","x","t">>), Str(<<"b","o","o","k","c","o","r","p","u","s">>), Str(<<"c","4">>), Str(<<"t","h","e","_","p","i","l","e">>),
                 Str(<<"o","s","c","a","r">>), Str(<<"c","c","1","0","0">>), Str(<<"m","c","4">>), Str(<<>>)>>

\* k consecutive entries of the pool from offset o on (cyclic)
PoolSlice(o, k) == [i \in 1..k |-> DatasetPool[((o + i - 1) % Len(DatasetPool)) + 1]]

\* lists of str, and the same lists with one entry that is not a str (e.g. a YAML number)
DatasetLists ==
    LET strs == {PoolSlice(o, k) : o \in {0, 1, 7}, k \in 0..MaxDatasets}
    IN  strs \cup {[l EXCEPT ![j] = IntVal(<<"2","0","2","3">>)] : l \in strs \ {<<>>}, j \in {1}}
             \cup {[l EXCEPT ![Len(l)] = None] : l \in strs \ {<<>>}}

\* dicts with or without the keys 'tags' and 'datasets'
MetadataOf(tags, datasets) ==
    [k \in (IF tags = None THEN {} ELSE {"tags"}) \cup (IF datasets = None THEN {} ELSE {"datasets"})
        |-> IF k = "tags" THEN tags ELSE datasets]

MetadataInputs ==
    {MetadataOf(List(l), None) : l \in TagLists}
        \cup {MetadataOf(None, List(l)) : l \in DatasetLists}
        \cup {MetadataOf(List(<<>>), List(l)) : l \in DatasetLists}

CoreMetadata == {
    EmptyDict,
    MetadataOf(List(<<>>), List(<<>>)),
    MetadataOf(List(<<Str(<<"p","y","t","o","r","c","h">>), Str(<<"B","E","R","T","-","L","a","r","g","e">>), Str(<<"l","l","a","m","a","-","7","b">>)>>),
               List(<<Str(<<"w","i","k","i","t","e","x","t">>), Str(<<"b","o","o","k","c","o","r","p","u","s">>)>>)),
    MetadataOf(None, List(<<IntVal(<<"2","0","2","3">>)>>)) }

CoreCards == {None, Str(<<>>), Str(CARD_UNAVAILABLE), Str(<<"w","i","k","i">>), Str(<<"7","B"," ","p","a","r","a","m","e","t","e","r","s">>),
              Str(<<"T","r","a","i","n","e","d"," ","o","n",":"," ","w","i","k","i">>)}

\* a line of n letters, no two neighbours equal
LetterLine(n) == [i \in 1..n |-> LowerChars[(i % Len(LowerChars)) + 1]]

\* cards whose training section is longer than the extractor keeps
LongCards ==
    {Str(head \o LetterLine(n) \o tail) :
        head \in {<<"#","#"," ","T","r","a","i","n","i","n","g"," ","D","a","t","a","\n">>, <<"T","r","a","i","n","e","d"," ","o","n",":"," ">>, <<"#","#"," ","D","a","t","a","s","e","t","\n","\n"," "," ">>},
        n \in {199, 200, 201, 215},
        tail \in {<<>>, <<"\n","m","o","r","e"," ","t","e","x","t">>}}
      \cup {Str(<<"T","r","a","i","n","e","d"," ","o","n",":"," ","w","i","k","i","\n">> \o LetterLine(210))}

\* a text of n letters with a newline at every 17th place
BrokenLines(n) == [i \in 1..n |-> IF i % 17 = 0 THEN "\n" ELSE LowerChars[(i % Len(LowerChars)) + 1]]

\* cards with a parameter count inside text that is longer than the quoted context
ContextCards ==
    {Str(before \o count \o after) :
        before \in {<<>>, BrokenLines(49) \o <<" ">>, BrokenLines(50) \o <<" ">>, BrokenLines(70) \o <<"\n">>},
        count \in {<<"7","B"," ","p","a","r","a","m","e","t","e","r","s">>, <<"7","B","\n","p","a","r","a","m","e","t","e","r","s">>, <<"m","o","d","e","l"," ","s","i","z","e",":","\n","1",".","5"," ","M">>, <<"1","3","b"," ","p","a","r","a","m","s">>},
        after \in {<<>>, <<" ">> \o BrokenLines(49), <<"\n">> \o BrokenLines(50), <<".">> \o BrokenLines(70)}}

ExtractInputs ==
    (CardInputs \X CoreMetadata) \cup (CoreCards \X MetadataInputs)
        \cup ((LongCards \cup ContextCards) \X CoreMetadata)

---------------------------------------------------------------------------
(* Values of the variables an entry point does not use *)

NoPosition == [family |-> 0, phase |-> "idle", index |-> 0]
NoReference == RefReturn(NA_REFERENCE)

ExtractIdle ==
    /\ card_content = None
    /\ card_metadata = EmptyDict
    /\ params_result = NotCalled
    /\ training_result = NotCalled
PaperIdle ==
    /\ family_arg = <<>>
    /\ paper_result = NoReference
CollectIdle ==
    /\ model_architectures = ARCHITECTURE_DEFS
    /\ encoder_only = <<>>
    /\ decoder_only = <<>>
    /\ encoder_decoder = <<>>
    /\ pc = NoPosition
    /\ outcomes = <<>>
    /\ written = <<>>
    /\ frames = <<>>
    /\ invocations = <<>>
    /\ lookups = <<>>
ClassifyIdle ==
    /\ model_name_arg = <<>>
    /\ classify_result = <<>>

---------------------------------------------------------------------------
(* The extractor called on one input *)

InitExtract ==
    /\ mode = "extract"
    /\ called = {}
    /\ paper_sources = PAPER_SOURCES
    /\ \E input \in ExtractInputs :
          /\ card_content = input[1]
          /\ card_metadata = input[2]
    /\ params_result = NotCalled
    /\ training_result = NotCalled
    /\ PaperIdle
    /\ CollectIdle
    /\ ClassifyIdle

CallExtractParameters ==
    /\ mode = "extract"
    /\ "params" \notin called
    /\ params_result' = extract_parameters_from_card(card_content, card_metadata)
    /\ called' = called \cup {"params"}
    /\ UNCHANGED <<mode, paper_sources, card_content, card_metadata, training_result, paperVars, collectVars, classifyVars>>

CallExtractTrainingData ==
    /\ mode = "extract"
    /\ "training" \notin called
    /\ training_result' = extract_training_data_from_card(card_content, card_metadata)
    /\ called' = called \cup {"training"}
    /\ UNCHANGED <<mode, paper_sources, card_content, card_metadata, params_result, paperVars, collectVars, classifyVars>>

NextExtract == CallExtractParameters \/ CallExtractTrainingData

SpecExtract == InitExtract /\ [][NextExtract]_vars

---------------------------------------------------------------------------
(* get_paper_reference called on one family, for a collector whose          *)
(* paper_sources holds some of the entries of PAPER_SOURCES                 *)

Restrict(f, keys) == [k \in DOMAIN f \cap keys |-> f[k]]

RemovableKeys == {<<"L","l","a","m","a">>, <<"L","l","a","m","a","-","3">>, <<"B","E","R","T">>, <<"G","P","T","-","4">>}

PaperTables ==
    {Restrict(PAPER_SOURCES, DOMAIN PAPER_SOURCES \ removed) : removed \in SUBSET RemovableKeys}
        \cup {Restrict(PAPER_SOURCES, kept) : kept \in SUBSET RemovableKeys}

FamilyArgs == {
    <<"B","E","R","T">>, <<"L","l","a","m","a">>, <<"L","l","a","m","a","-","3">>, <<"L","l","a","m","a","-","3",".","1","-","8","B">>, <<"L","L","A","M","A","-","3",".","2">>, <<"m","e","t","a","-","l","l","a","m","a","-","3","-","7","0","b">>,
    <<"L","l","a","m","a","-","2">>, <<"G","P","T","-","4">>, <<"u","n","k","n","o","w","n","-","f","a","m","i","l","y">>, <<>> }

InitPaper ==
    /\ mode = "paper"
    /\ called = {}
    /\ paper_sources \in PaperTables
    /\ family_arg \in FamilyArgs
    /\ paper_result = NoReference
    /\ ExtractIdle
    /\ CollectIdle
    /\ ClassifyIdle

CallGetPaperReference ==
    /\ mode = "paper"
    /\ "paper" \notin called
    /\ paper_result' = get_paper_reference(paper_sources, family_arg)
    /\ called' = called \cup {"paper"}
    /\ UNCHANGED <<mode, paper_sources, family_arg, extractVars, collectVars, classifyVars>>

NextPaper == CallGetPaperReference

SpecPaper == InitPaper /\ [][NextPaper]_vars

---------------------------------------------------------------------------
(* ModelCollector.collect_all_architectures, one loop iteration per step *)

\* models for which the services may deviate from the default in one run
MaxFaults == 1

\* the deviations among the outcomes so far
Faults(os) == Cardinality({i \in 1..Len(os) : os[i].outcome # DefaultOutcome})

RECURSIVE PositionSkippingLast(_, _, _, _)
\* Position with the loops ending one item early (range(len(xs) - 1))
PositionSkippingLast(architectures, f, phase, j) ==
    IF f > Len(architectures) THEN [family |-> f, phase |-> "done", index |-> 0]
    ELSE LET info == architectures[f].info
         IN  IF phase = "huggingface"
             THEN IF "huggingface" \in DOMAIN info /\ j < Len(info["huggingface"])
                  THEN [family |-> f, phase |-> phase, index |-> j]
                  ELSE PositionSkippingLast(architectures, f, "versions", 1)
             ELSE IF "versions" \in DOMAIN info /\ j < Len(info["versions"])
                  THEN [family |-> f, phase |-> phase, index |-> j]
                  ELSE PositionSkippingLast(architectures, f + 1, "huggingface", 1)

RECURSIVE Position(_, _, _, _)
\* the loop position at or after (family f, phase, index j) that has an item to process
Position(architectures, f, phase, j) ==
    IF f > Len(architectures) THEN [family |-> f, phase |-> "done", index |-> 0]
    ELSE LET info == architectures[f].info
         IN  IF phase = "huggingface"
             THEN IF "huggingface" \in DOMAIN info /\ j <= Len(info["huggingface"])
                  THEN [family |-> f, phase |-> phase, index |-> j]
                  ELSE Position(architectures, f, "versions", 1)
             ELSE IF "versions" \in DOMAIN info /\ j <= Len(info["versions"])
                  THEN [family |-> f, phase |-> phase, index |-> j]
                  ELSE Position(architectures, f + 1, "huggingface", 1)

\* the decoration applied to normal records only: an error-marker record stays as the
\* except branch returned it
DecorateUnlessError(data, family, info) ==
    IF "Fehler" \in DOMAIN data THEN data
    ELSE ("Modell-Familie" :> Str(family)) @@ ("Beschreibung" :> Str(info["description"]))
             @@ ("Jahr" :> info["year"]) @@ data

\* data["Modell-Familie"] = family; data["Beschreibung"] = ...; data["Jahr"] = ...
Decorate(data, family, info) ==
    ("Modell-Familie" :> Str(family)) @@ ("Beschreibung" :> Str(info["description"]))
        @@ ("Jahr" :> info["year"]) @@ data

\* the loop without the assignment of line 513: the model dict stays as configured
WithFamilyUnset(model_dict, family) == model_dict

\* model_dict["family"] = family
WithFamily(model_dict, family) == ("family" :> family) @@ model_dict

InitCollect ==
    /\ mode = "collect"
    /\ called = {}
    /\ paper_sources = PAPER_SOURCES
    /\ ExtractIdle
    /\ PaperIdle
    /\ ClassifyIdle
    /\ model_architectures = ARCHITECTURE_DEFS
    /\ encoder_only = <<>>
    /\ decoder_only = <<>>
    /\ encoder_decoder = <<>>
    /\ pc = Position(ARCHITECTURE_DEFS, 1, "huggingface", 1)
    /\ outcomes = <<>>
    /\ written = <<>>
    /\ frames = <<>>
    /\ invocations = <<>>
    /\ lookups = <<>>

\* one iteration of "for model_dict in info['huggingface']" (lines 512-526)
ProcessHFModel ==
    /\ mode = "collect"
    /\ pc.phase = "huggingface"
    /\ \E outcome \in {DefaultOutcome} \cup (IF Faults(outcomes) < MaxFaults THEN Deviations ELSE {}) :
         LET family == model_architectures[pc.family].family
             info == model_architectures[pc.family].info
             arch_type == info["architecture"]
             model_dict == WithFamily(info["huggingface"][pc.index], family)
             architectures ==
                 [model_architectures EXCEPT
                     ![pc.family].info["huggingface"][pc.index] = model_dict]
             result == download_hf_with_sources(architectures, paper_sources, model_dict, outcome)
             data == Decorate(result.data, family, architectures[pc.family].info)
         IN  /\ model_architectures' = architectures
             /\ outcomes' = Append(outcomes, [family |-> pc.family, index |-> pc.index,
                                               outcome |-> outcome])
             /\ written' = IF result.file = <<>> THEN written ELSE Append(written, result.file)
             /\ invocations' = invocations \o ExtractorCalls(model_dict, outcome)
             /\ lookups' = lookups \o PaperCalls(paper_sources, model_dict, outcome)
             /\ IF result.propagated
                THEN /\ pc' = [family |-> pc.family, phase |-> "aborted", index |-> pc.index]
                     /\ UNCHANGED <<encoder_only, decoder_only, encoder_decoder>>
                ELSE /\ pc' = Position(architectures, pc.family, "huggingface", pc.index + 1)
                     /\ encoder_only' = IF arch_type = <<"E","n","c","o","d","e","r","-","o","n","l","y">>
                                        THEN Append(encoder_only, data) ELSE encoder_only
                     /\ decoder_only' = IF arch_type = <<"D","e","c","o","d","e","r","-","o","n","l","y">>
                                        THEN Append(decoder_only, data) ELSE decoder_only
                     /\ encoder_decoder' = IF arch_type = <<"E","n","c","o","d","e","r","-","D","e","c","o","d","e","r">>
                                           THEN Append(encoder_decoder, data) ELSE encoder_decoder
    /\ UNCHANGED <<mode, called, paper_sources, extractVars, paperVars, classifyVars, frames>>

\* the iteration over the versions filing its record as the iteration over the open
\* models does, in the list of the family's class
ProcessVersionGrouped ==
    /\ mode = "collect"
    /\ pc.phase = "versions"
    /\ LET family == model_architectures[pc.family].family
           info == model_architectures[pc.family].info
           arch_type == info["architecture"]
           version == info["versions"][pc.index]
           data == Decorate(download_proprietary_model_with_sources(
                                model_architectures, paper_sources, family, version),
                            family, info)
       IN  /\ encoder_only' = IF arch_type = <<"E","n","c","o","d","e","r","-","o","n","l","y">>
                              THEN Append(encoder_only, data) ELSE encoder_only
           /\ decoder_only' = IF arch_type = <<"D","e","c","o","d","e","r","-","o","n","l","y">>
                              THEN Append(decoder_only, data) ELSE decoder_only
           /\ encoder_decoder' = IF arch_type = <<"E","n","c","o","d","e","r","-","D","e","c","o","d","e","r">>
                                 THEN Append(encoder_decoder, data) ELSE encoder_decoder
           /\ pc' = Position(model_architectures, pc.family, "versions", pc.index + 1)
           /\ lookups' = lookups \o ProprietaryPaperCalls(paper_sources, family, version)
    /\ UNCHANGED <<mode, called, paper_sources, extractVars, paperVars, classifyVars, model_architectures,
                   outcomes, written, frames, invocations>>

\* one iteration of "for version in info['versions']" (lines 530-537)
ProcessVersion ==
    /\ mode = "collect"
    /\ pc.phase = "versions"
    /\ LET family == model_architectures[pc.family].family
           info == model_architectures[pc.family].info
           arch_type == info["architecture"]
           version == info["versions"][pc.index]
           data == Decorate(download_proprietary_model_with_sources(
                                model_architectures, paper_sources, family, version),
                            family, info)
       IN  /\ decoder_only' = IF arch_type = <<"D","e","c","o","d","e","r","-","o","n","l","y">>
                              THEN Append(decoder_only, data) ELSE decoder_only
           /\ pc' = Position(model_architectures, pc.family, "versions", pc.index + 1)
           /\ lookups' = lookups \o ProprietaryPaperCalls(paper_sources, family, version)
    /\ UNCHANGED <<mode, called, paper_sources, extractVars, paperVars, classifyVars, model_architectures,
                   encoder_only, encoder_decoder, outcomes, written, frames, invocations>>

\* lines 540-544: the three lists become the three returned DataFrames
ReturnFrames ==
    /\ mode = "collect"
    /\ pc.phase = "done"
    /\ frames' = <<encoder_only, decoder_only, encoder_decoder>>
    /\ pc' = [pc EXCEPT !.phase = "returned"]
    /\ UNCHANGED <<mode, called, paper_sources, extractVars, paperVars, classifyVars, model_architectures,
                   encoder_only, decoder_only, encoder_decoder, outcomes, written, invocations,
                   lookups>>

NextCollect == ProcessHFModel \/ ProcessVersion \/ ReturnFrames

SpecCollect == InitCollect /\ [][NextCollect]_vars

\* the open models and then the proprietary versions configured for the f-th family
ItemsOfFamily(f) ==
    LET info == ARCHITECTURE_DEFS[f].info
        open == IF "huggingface" \in DOMAIN info
                THEN [j \in 1..Len(info["huggingface"]) |->
                          [family |-> f, phase |-> "huggingface", index |-> j]]
                ELSE <<>>
        closed == IF "versions" \in DOMAIN info
                  THEN [j \in 1..Len(info["versions"]) |->
                            [family |-> f, phase |-> "versions", index |-> j]]
                  ELSE <<>>
    IN  open \o closed

RECURSIVE ItemsFrom(_)
\* every configured model and version, from the f-th family on, in table order
ItemsFrom(f) ==
    IF f > Len(ARCHITECTURE_DEFS) THEN <<>> ELSE ItemsOfFamily(f) \o ItemsFrom(f + 1)

ConfiguredItems == ItemsFrom(1)

\* the positions the loops of collect_all_architectures go through
LoopPositions ==
    {ConfiguredItems[k] : k \in 1..Len(ConfiguredItems)}
        \cup {[family |-> Len(ARCHITECTURE_DEFS) + 1, phase |-> p, index |-> 0] :
                 p \in {"done", "returned"}}

\* a step of the method as the loop position sees it: every step of NextCollect that
\* stays in the method is one, and one is possible exactly where NextCollect is
LoopStep ==
    /\ mode = "collect"
    /\ pc.phase \in {"huggingface", "versions", "done"}
    /\ pc' \in LoopPositions
    /\ pc' # pc

\* the method is one sequential loop in one thread: while it has a next step, it
\* takes it
SpecCollectFair == SpecCollect /\ WF_pc(LoopStep)

---------------------------------------------------------------------------
(* classify_architecture called on one model identifier, for a collector    *)
(* whose model_architectures holds families of ARCHITECTURE_DEFS in some     *)
(* order                                                                     *)

\* the items of a table in reverse order
Reversed(table) == [i \in 1..Len(table) |-> table[Len(table) + 1 - i]]

\* the items of a table whose family is not among the dropped ones
Without(table, dropped) ==
    LET Kept(item) == item.family \notin dropped
    IN  SelectSeq(table, Kept)

DroppableFamilies == {<<"B","E","R","T">>, <<"L","l","a","m","a">>, <<"T","5">>}

ArchitectureTables ==
    {Without(ARCHITECTURE_DEFS, dropped) : dropped \in SUBSET DroppableFamilies}
        \cup {Without(Reversed(ARCHITECTURE_DEFS), dropped) : dropped \in SUBSET DroppableFamilies}
        \cup {<<>>}

ModelNames == {
    <<"g","o","o","g","l","e","-","b","e","r","t","/","b","e","r","t","-","b","a","s","e","-","u","n","c","a","s","e","d">>, <<"F","a","c","e","b","o","o","k","A","I","/","r","o","b","e","r","t","a","-","l","a","r","g","e">>, <<"d","m","i","s","-","l","a","b","/","b","i","o","b","e","r","t","-","v","1",".","1">>,
    <<"m","e","t","a","-","l","l","a","m","a","/","L","l","a","m","a","-","2","-","7","b","-","h","f">>, <<"m","e","t","a","-","l","l","a","m","a","/","L","l","a","m","a","-","3",".","1","-","8","B">>, <<"M","E","T","A","-","L","L","A","M","A","/","L","L","A","M","A","-","2","-","7","B","-","H","F">>,
    <<"g","o","o","g","l","e","-","t","5","/","t","5","-","s","m","a","l","l">>, <<"g","o","o","g","l","e","/","m","t","5","-","b","a","s","e">>, <<"f","a","c","e","b","o","o","k","/","b","a","r","t","-","b","a","s","e">>,
    <<"o","p","e","n","a","i","/","g","p","t","-","4","-","b","e","r","t">>, <<"c","l","a","u","d","e","-","t","5">>, <<"b","a","r","t","-","l","l","a","m","a">>, <<"g","p","t","2">>, <<"m","i","s","t","r","a","l","a","i","/","M","i","s","t","r","a","l","-","7","B","-","v","0",".","1">>,
    <<>> }

InitClassify ==
    /\ mode = "classify"
    /\ called = {}
    /\ paper_sources = PAPER_SOURCES
    /\ ExtractIdle
    /\ PaperIdle
    /\ model_architectures \in ArchitectureTables
    /\ encoder_only = <<>>
    /\ decoder_only = <<>>
    /\ encoder_decoder = <<>>
    /\ pc = NoPosition
    /\ outcomes = <<>>
    /\ written = <<>>
    /\ frames = <<>>
    /\ invocations = <<>>
    /\ lookups = <<>>
    /\ model_name_arg \in ModelNames
    /\ classify_result = <<>>

CallClassifyArchitecture ==
    /\ mode = "classify"
    /\ "classify" \notin called
    /\ classify_result' = classify_architecture(model_architectures, model_name_arg)
    /\ called' = called \cup {"classify"}
    /\ UNCHANGED <<mode, paper_sources, model_name_arg, extractVars, paperVars, collectVars>>

NextClassify == CallClassifyArchitecture

SpecClassify == InitClassify /\ [][NextClassify]_vars

---------------------------------------------------------------------------
(* collect_all_architectures for a collector whose model_architectures was   *)
(* set to a table other than the shipped one: some families of               *)
(* ARCHITECTURE_DEFS, with the architecture class of the proprietary family  *)
(* changed and with proprietary versions given to an open family             *)

\* the table with the architecture class of one family replaced
WithClass(table, family, arch) ==
    [i \in 1..Len(table) |->
        IF table[i].family = family
        THEN [table[i] EXCEPT !.info["architecture"] = arch]
        ELSE table[i]]

\* the table with a "versions" list given to one family
WithVersions(table, family, versions) ==
    [i \in 1..Len(table) |->
        IF table[i].family = family
        THEN [table[i] EXCEPT !.info = ("versions" :> versions) @@ table[i].info]
        ELSE table[i]]

KeptFamilies == {<<"S","c","i","B","E","R","T">>, <<"G","P","T","-","4">>, <<"L","l","a","m","a">>, <<"B","A","R","T">>}

VersionClasses == {<<"D","e","c","o","d","e","r","-","o","n","l","y">>, <<"E","n","c","o","d","e","r","-","o","n","l","y">>, <<"E","n","c","o","d","e","r","-","D","e","c","o","d","e","r">>}

CollectTables ==
    LET all == {ARCHITECTURE_DEFS[i].family : i \in 1..Len(ARCHITECTURE_DEFS)}
        kept == Without(ARCHITECTURE_DEFS, all \ KeptFamilies)
        mixed == WithVersions(kept, <<"B","A","R","T">>, InfoOf(ARCHITECTURE_DEFS, <<"G","e","m","i","n","i">>)["versions"])
    IN  {WithClass(table, <<"G","P","T","-","4">>, arch) : table \in {kept, mixed}, arch \in VersionClasses}

InitCollectTables ==
    /\ mode = "collect"
    /\ called = {}
    /\ paper_sources = PAPER_SOURCES
    /\ ExtractIdle
    /\ PaperIdle
    /\ ClassifyIdle
    /\ model_architectures \in CollectTables
    /\ encoder_only = <<>>
    /\ decoder_only = <<>>
    /\ encoder_decoder = <<>>
    /\ pc = Position(model_architectures, 1, "huggingface", 1)
    /\ outcomes = <<>>
    /\ written = <<>>
    /\ frames = <<>>
    /\ invocations = <<>>
    /\ lookups = <<>>

SpecCollectTables == InitCollectTables /\ [][NextCollect]_vars

---------------------------------------------------------------------------
(* The program: any of its entry points *)

Init == InitExtract \/ InitPaper \/ InitCollect \/ InitCollectTables \/ InitClassify

Next == NextExtract \/ NextPaper \/ NextCollect \/ NextClassify

Spec == Init /\ [][Next]_vars

---------------------------------------------------------------------------
(* Properties of the fact extractor (checked under SpecExtract) *)

NOT_FOUND == Return(<<"N","o","t"," ","f","o","u","n","d"," ","i","n"," ","M","o","d","e","l"," ","C","a","r","d">>, <<"M","o","d","e","l"," ","C","a","r","d"," ","n","o","t"," ","a","v","a","i","l","a","b","l","e">>)
NOT_SPECIFIED ==
    Return(<<"N","o","t"," ","s","p","e","c","i","f","i","e","d"," ","i","n"," ","M","o","d","e","l"," ","C","a","r","d">>, <<"M","o","d","e","l"," ","C","a","r","d"," ","c","h","e","c","k","e","d",","," ","n","o"," ","p","a","r","a","m","e","t","e","r"," ","c","o","u","n","t"," ","f","o","u","n","d">>)

\* the card is a text that the extractor reads: a non-empty str other than the sentinel
CardPresent == card_content.type = "str" /\ card_content.v # <<>> /\ card_content.v # CARD_UNAVAILABLE

\* the i-th parameter pattern matches somewhere in the card text
ParamMatches(i) == Search(patterns[i].pattern, card_content.v).ok
\* the i-th section pattern matches somewhere in the card text
SectionMatches(i) == Search(sections[i].pattern, card_content.v).ok
\* what the i-th section pattern captured, cut to its first line and 200 characters
SectionCaptureOf(i) == TruncatedCapture(card_content.v, Search(sections[i].pattern, card_content.v))

\* s starts with prefix
StartsWith(s, prefix) == Len(prefix) <= Len(s) /\ SubSeq(s, 1, Len(prefix)) = prefix

\* metadata has no tag list or an empty one
NoTags == "tags" \notin DOMAIN card_metadata \/ card_metadata["tags"].v = <<>>

\* C1: for every card input and every metadata mapping, each of the two extractor
\* functions returns one (value, provenance) pair with a non-empty provenance and
\* never raises.
C1_ExtractorTotal ==
    mode = "extract" =>
        /\ "params" \in called =>
              ~params_result.raised /\ params_result.source # <<>>
        /\ "training" \in called =>
              ~training_result.raised /\ training_result.source # <<>>

\* C4: with card text present, the first pattern of the list that matches anywhere in
\* the text decides value and provenance of extract_parameters_from_card, also when a
\* later pattern matches at an earlier position; the tags are not consulted.
C4_FirstListedPatternWins ==
    (mode = "extract" /\ "params" \in called /\ CardPresent) =>
        \A i \in 1..Len(patterns) :
            (ParamMatches(i) /\ \A h \in 1..(i - 1) : ~ParamMatches(h)) =>
                LET match == Search(patterns[i].pattern, card_content.v)
                IN  /\ ~params_result.raised
                    /\ params_result.value = Slice(card_content.v, match.start, match.end)
                    /\ StartsWith(params_result.source, patterns[i].source_desc \o <<":"," ","'">>)

\* C4 witness: the deciding pattern is listed before a pattern that matches at an
\* earlier position of the text, and the tags would match a size keyword.
C4_Witness ==
    /\ mode = "extract" /\ "params" \in called /\ CardPresent
    /\ \E i \in 1..Len(patterns) : \E j \in (i + 1)..Len(patterns) :
          /\ ParamMatches(i) /\ ParamMatches(j)
          /\ \A h \in 1..(i - 1) : ~ParamMatches(h)
          /\ Search(patterns[j].pattern, card_content.v).start
                < Search(patterns[i].pattern, card_content.v).start
          /\ params_result.value = <<"7","B"," ","p","a","r","a","m","e","t","e","r","s">>
    /\ ~NoTags

\* C5 as stated: the first section pattern that matches decides the result; a non-empty
\* truncated capture is returned with its provenance, an empty one falls through to
\* the metadata-datasets fallback and no later pattern is consulted.
C5_FirstMatchingSectionDecides ==
    (mode = "extract" /\ "training" \in called /\ CardPresent) =>
        \A i \in 1..Len(sections) :
            (SectionMatches(i) /\ \A h \in 1..(i - 1) : ~SectionMatches(h)) =>
                IF SectionCaptureOf(i) # <<>>
                THEN training_result = Return(SectionCaptureOf(i), sections[i].source_desc)
                ELSE training_result = TrainingFallback(card_metadata)

\* C5 amended: the first section pattern, in list order, whose truncated capture is
\* non-empty decides the result; a pattern that matches with an empty truncated capture
\* is skipped and the later patterns are still tried; the metadata-datasets fallback is
\* reached only when no pattern gives a non-empty truncated capture.
C5_FirstNonEmptyCaptureDecides ==
    (mode = "extract" /\ "training" \in called /\ CardPresent) =>
        LET Yields(i) == SectionMatches(i) /\ SectionCaptureOf(i) # <<>>
        IN  /\ \A i \in 1..Len(sections) :
                  (Yields(i) /\ \A h \in 1..(i - 1) : ~Yields(h)) =>
                      training_result = Return(SectionCaptureOf(i), sections[i].source_desc)
            /\ (\A i \in 1..Len(sections) : ~Yields(i)) =>
                  training_result = TrainingFallback(card_metadata)

\* C5 witness: a pattern matched with an empty truncated capture and a pattern listed
\* after it decided the result.
C5_Witness ==
    /\ mode = "extract" /\ "training" \in called /\ CardPresent
    /\ \E h \in 1..Len(sections) : \E i \in (h + 1)..Len(sections) :
          /\ SectionMatches(h) /\ SectionCaptureOf(h) = <<>>
          /\ SectionMatches(i) /\ SectionCaptureOf(i) # <<>>
          /\ training_result.source = sections[i].source_desc

\* C6 as stated: for every card text that contains none of the four parameter
\* patterns, with a tag list that is empty or missing, the result is the NOT_SPECIFIED
\* sentinel with the provenance "Model Card checked, no parameter count found".
C6_NoPatternNoTags ==
    (/\ mode = "extract" /\ "params" \in called
     /\ card_content.type = "str"
     /\ \A i \in 1..Len(patterns) : ~ParamMatches(i)
     /\ NoTags)
        => params_result = NOT_SPECIFIED

\* C6 amended: for every non-empty card text other than the card-unavailable sentinel
\* that contains none of the four parameter patterns, with a tag list that is empty or
\* missing, the result is the NOT_SPECIFIED sentinel with the provenance "Model Card
\* checked, no parameter count found" (the empty text and the sentinel text count as a
\* missing card).
C6_PresentNoPatternNoTags ==
    (/\ mode = "extract" /\ "params" \in called
     /\ CardPresent
     /\ \A i \in 1..Len(patterns) : ~ParamMatches(i)
     /\ NoTags)
        => params_result = NOT_SPECIFIED

\* C6 witness: a present card text without any pattern, checked with an empty tag list.
C6_Witness ==
    /\ mode = "extract" /\ "params" \in called
    /\ CardPresent
    /\ \A i \in 1..Len(patterns) : ~ParamMatches(i)
    /\ "tags" \in DOMAIN card_metadata /\ card_metadata["tags"].v = <<>>
    /\ params_result = NOT_SPECIFIED

\* some tag contains one of the size keywords
SomeSizeTag ==
    /\ "tags" \in DOMAIN card_metadata
    /\ \E i \in 1..Len(card_metadata["tags"].v) : \E size \in SIZES :
          Contains(LowerStr(card_metadata["tags"].v[i].v), size)

\* C7: for an absent card and for the card-unavailable sentinel the result is the
\* NOT_FOUND sentinel with the card-not-available provenance, whatever the metadata
\* holds: tags that match a size keyword are not consulted.
C7_MissingCardIgnoresMetadata ==
    (/\ mode = "extract" /\ "params" \in called
     /\ card_content \in {None, Str(CARD_UNAVAILABLE)})
        => params_result = NOT_FOUND

\* C7 witness: the card is absent and a tag matches a size keyword.
C7_Witness ==
    /\ mode = "extract" /\ "params" \in called
    /\ card_content = None
    /\ SomeSizeTag
    /\ params_result = NOT_FOUND

---------------------------------------------------------------------------
(* Properties of get_paper_reference (checked under SpecPaper) *)

\* the family is no key of the table and contains "llama-3" in any case
Llama3Variant == family_arg \notin DOMAIN paper_sources /\ Contains(LowerStr(family_arg), <<"l","l","a","m","a","-","3">>)

\* C8: get_paper_reference never raises, whatever entries the table holds, and returns
\* the all-"N/A" reference when no applicable entry exists.
C8_PaperReferenceNeverFails ==
    (mode = "paper" /\ "paper" \in called) =>
        /\ ~paper_result.raised
        /\ (/\ family_arg \notin DOMAIN paper_sources
            /\ ~(Llama3Variant /\ {<<"L","l","a","m","a">>, <<"L","l","a","m","a","-","3">>} \cap DOMAIN paper_sources # {}))
              => paper_result.ref = NA_REFERENCE

\* C9: a family that is no key and contains "llama-3" resolves to the entry keyed
\* "Llama-3" when the table has it, and to the entry keyed "Llama" when "Llama-3" is
\* absent.
C9_Llama3Fallback ==
    (mode = "paper" /\ "paper" \in called /\ Llama3Variant) =>
        /\ <<"L","l","a","m","a","-","3">> \in DOMAIN paper_sources =>
              paper_result = RefReturn(paper_sources[<<"L","l","a","m","a","-","3">>])
        /\ (<<"L","l","a","m","a","-","3">> \notin DOMAIN paper_sources /\ <<"L","l","a","m","a">> \in DOMAIN paper_sources) =>
              paper_result = RefReturn(paper_sources[<<"L","l","a","m","a">>])

\* C10: a family that is a key of the table gets the entry stored under that key, also
\* when the key contains "llama-3"; a family that is neither a key nor contains
\* "llama-3" gets the reference whose four fields are "N/A".
C10_ExactMatchFirst ==
    (mode = "paper" /\ "paper" \in called) =>
        /\ family_arg \in DOMAIN paper_sources =>
              paper_result = RefReturn(paper_sources[family_arg])
        /\ (family_arg \notin DOMAIN paper_sources /\ ~Contains(LowerStr(family_arg), <<"l","l","a","m","a","-","3">>)) =>
              paper_result = RefReturn([paper_url |-> NA, paper_title |-> NA,
                                        authors |-> NA, venue |-> NA])

\* C10 witness: the key "Llama-3", which contains "llama-3", resolved by exact match in
\* a table that has no "Llama" entry.
C10_Witness ==
    /\ mode = "paper" /\ "paper" \in called
    /\ family_arg = <<"L","l","a","m","a","-","3">>
    /\ family_arg \in DOMAIN paper_sources
    /\ <<"L","l","a","m","a">> \notin DOMAIN paper_sources
    /\ paper_result = RefReturn(PAPER_SOURCES[<<"L","l","a","m","a","-","3">>])

---------------------------------------------------------------------------
(* Properties of a collection run (checked under SpecCollect) *)

\* the open models of the shipped table: (position of the family, position in its list)
OpenModels ==
    {<<f, j>> : f \in 1..Len(ARCHITECTURE_DEFS), j \in 1..6} \cap
    {m \in (1..Len(ARCHITECTURE_DEFS)) \X (1..6) :
        /\ "huggingface" \in DOMAIN ARCHITECTURE_DEFS[m[1]].info
        /\ m[2] <= Len(ARCHITECTURE_DEFS[m[1]].info["huggingface"])}

\* the exception that the steps of the try block raise under an outcome (NoExc: none)
ErrorOf(outcome) ==
    LET card_text == IF outcome.card.loaded THEN outcome.card.content ELSE Str(CARD_UNAVAILABLE)
        metadata == IF outcome.card.loaded THEN outcome.card.data ELSE EmptyDict
        params == extract_parameters_from_card(card_text, metadata)
        training == extract_training_data_from_card(card_text, metadata)
    IN  IF outcome.fault = "model_info" THEN FaultExc("model_info")
        ELSE IF params.raised THEN params.exc
        ELSE IF training.raised THEN training.exc
        ELSE IF outcome.fault # "none" THEN FaultExc(outcome.fault)
        ELSE NoExc

\* the record of open model m under an outcome in a run in which only m is processed:
\* the error marker with the model name and the error description when a step raised
IsolatedRecord ==
    [m \in OpenModels, outcome \in {DefaultOutcome} \cup Deviations |->
        LET family == ARCHITECTURE_DEFS[m[1]].family
            info == ARCHITECTURE_DEFS[m[1]].info
            model_dict == WithFamily(info["huggingface"][m[2]], family)
            data == IF ErrorOf(outcome) # NoExc
                    THEN ("Modellname" :> Str(model_dict["id"]))
                         @@ ("Fehler" :> Str(ErrorOf(outcome).msg))
                         @@ ("Zugriffsdatum" :> Str(ACCESS_DATE))
                    ELSE TryBlock(ARCHITECTURE_DEFS, PAPER_SOURCES, model_dict, outcome).data
        IN  ("Modell-Familie" :> Str(family)) @@ ("Beschreibung" :> Str(info["description"]))
                @@ ("Jahr" :> info["year"]) @@ data]

\* a record of an open model (a proprietary record carries a release date)
IsOpenRecord(data) == "Release-Datum" \notin DOMAIN data

\* the records expected in the list of one architecture class for the outcomes so far
ExpectedOpenRecords(arch) ==
    LET OfArch(o) == ARCHITECTURE_DEFS[o.family].info["architecture"] = arch
        sel == SelectSeq(outcomes, OfArch)
    IN  [i \in 1..Len(sel) |-> IsolatedRecord[<<sel[i].family, sel[i].index>>, sel[i].outcome]]

RECURSIVE OpenModelsFrom(_, _)
\* the open models in processing order
OpenModelsFrom(f, j) ==
    IF f > Len(ARCHITECTURE_DEFS) THEN <<>>
    ELSE IF <<f, j>> \in OpenModels THEN <<<<f, j>>>> \o OpenModelsFrom(f, j + 1)
    ELSE OpenModelsFrom(f + 1, 1)

\* C2: a step of download_hf_with_sources that raises gives an error-marker record with
\* the model name and the error description; the failure is not propagated, every
\* remaining model is processed, and the record of every model is the one it has in a
\* run where no other model failed.
C2_FailureIsolated ==
    mode = "collect" =>
        /\ pc.phase # "aborted"
        /\ pc.phase = "returned" =>
              /\ [i \in 1..Len(outcomes) |-> <<outcomes[i].family, outcomes[i].index>>]
                    = OpenModelsFrom(1, 1)
              /\ SelectSeq(frames[1], IsOpenRecord) = ExpectedOpenRecords(<<"E","n","c","o","d","e","r","-","o","n","l","y">>)
              /\ SelectSeq(frames[2], IsOpenRecord) = ExpectedOpenRecords(<<"D","e","c","o","d","e","r","-","o","n","l","y">>)
              /\ SelectSeq(frames[3], IsOpenRecord) = ExpectedOpenRecords(<<"E","n","c","o","d","e","r","-","D","e","c","o","d","e","r">>)

\* C2 witness: the run returned, a step raised for one model and a model processed
\* after it has its normal record.
C2_Witness ==
    /\ mode = "collect" /\ pc.phase = "returned"
    /\ \E i \in 1..Len(outcomes) : \E j \in (i + 1)..Len(outcomes) :
          /\ ErrorOf(outcomes[i].outcome) # NoExc
          /\ ErrorOf(outcomes[j].outcome) = NoExc
          /\ \E k \in 1..Len(frames[1]) : "Fehler" \in DOMAIN frames[1][k]
          /\ \E k \in 1..Len(frames[3]) :
                /\ "Fehler" \notin DOMAIN frames[3][k]
                /\ frames[3][k] = IsolatedRecord[<<outcomes[j].family, outcomes[j].index>>, DefaultOutcome]

\* C3: a collection run never mutates the static reference tables: at every point of
\* the run the family table and the paper table, nested descriptors included, equal
\* their values before the run.
C3_TablesNeverMutated ==
    mode = "collect" =>
        /\ model_architectures = ARCHITECTURE_DEFS
        /\ paper_sources = PAPER_SOURCES

---------------------------------------------------------------------------
(* Properties of classify_architecture (checked under SpecClassify) *)

\* positions of the families whose name is a case-insensitive substring of the identifier
MatchingFamilies ==
    {i \in 1..Len(model_architectures) :
        Contains(LowerStr(model_name_arg), LowerStr(model_architectures[i].family))}

\* C11: classify_architecture returns the architecture class of the first family, in
\* table order, whose name is a case-insensitive substring of the model identifier, and
\* "Unknown" when no family name is a substring; with the shipped table
\* "meta-llama/Llama-2-7b-hf" is Decoder-only.
C11_FirstFamilyInTableOrder ==
    (mode = "classify" /\ "classify" \in called) =>
        /\ MatchingFamilies = {} => classify_result = <<"U","n","k","n","o","w","n">>
        /\ \A i \in MatchingFamilies :
              (\A j \in MatchingFamilies : i <= j) =>
                  classify_result = model_architectures[i].info["architecture"]
        /\ (model_name_arg = <<"m","e","t","a","-","l","l","a","m","a","/","L","l","a","m","a","-","2","-","7","b","-","h","f">> /\ model_architectures = ARCHITECTURE_DEFS)
              => classify_result = <<"D","e","c","o","d","e","r","-","o","n","l","y">>

\* C11 witness: two families of different architecture class are substrings of the
\* identifier and the earlier one of the table decided.
C11_Witness ==
    /\ mode = "classify" /\ "classify" \in called
    /\ \E i \in MatchingFamilies : \E j \in MatchingFamilies :
          /\ i < j
          /\ \A h \in MatchingFamilies : i <= h
          /\ model_architectures[i].info["architecture"] # model_architectures[j].info["architecture"]
          /\ classify_result = model_architectures[i].info["architecture"]

---------------------------------------------------------------------------
(* Properties of a collection run, continued (checked under SpecCollect and  *)
(* SpecCollectFair)                                                          *)

\* the name under which the record of a configured item is filed
ItemName(item) ==
    IF item.phase = "huggingface"
    THEN ARCHITECTURE_DEFS[item.family].info["huggingface"][item.index]["id"]
    ELSE ARCHITECTURE_DEFS[item.family].info["versions"][item.index]["name"]

\* how many configured items lie before the loop position
ProcessedCount ==
    IF pc.phase \in {"done", "returned"} THEN Len(ConfiguredItems)
    ELSE IF \E k \in 1..Len(ConfiguredItems) : ConfiguredItems[k] = pc
    THEN (CHOOSE k \in 1..Len(ConfiguredItems) : ConfiguredItems[k] = pc) - 1
    ELSE 0

\* the names expected, in order, in the list of one architecture class
ExpectedNames(arch) ==
    LET OfArch(item) == ARCHITECTURE_DEFS[item.family].info["architecture"] = arch
        sel == SelectSeq(SubSeq(ConfiguredItems, 1, ProcessedCount), OfArch)
    IN  [i \in 1..Len(sel) |-> ItemName(sel[i])]

\* the names of the records of a list, in order
NamesOf(records) == [i \in 1..Len(records) |-> records[i]["Modellname"].v]

\* every list holds exactly the records of the items processed so far, in table order
C12_OneRecordPerItemInOrder ==
    mode = "collect" =>
        /\ pc.phase \in {"huggingface", "versions", "done", "returned"}
        /\ pc.phase \in {"huggingface", "versions"} =>
              \E k \in 1..Len(ConfiguredItems) : ConfiguredItems[k] = pc
        /\ NamesOf(encoder_only) = ExpectedNames(<<"E","n","c","o","d","e","r","-","o","n","l","y">>)
        /\ NamesOf(decoder_only) = ExpectedNames(<<"D","e","c","o","d","e","r","-","o","n","l","y">>)
        /\ NamesOf(encoder_decoder) = ExpectedNames(<<"E","n","c","o","d","e","r","-","D","e","c","o","d","e","r">>)
        /\ Len(encoder_only) + Len(decoder_only) + Len(encoder_decoder) = ProcessedCount
        /\ pc.phase = "returned" =>
              /\ frames = <<encoder_only, decoder_only, encoder_decoder>>
              /\ ProcessedCount = Len(ConfiguredItems)
              /\ Cardinality({ItemName(ConfiguredItems[k]) : k \in 1..Len(ConfiguredItems)})
                    = Len(ConfiguredItems)

\* C12: a collection run over the configured table terminates and has exactly one
\* record for every configured open model and proprietary version; items are processed
\* one after another and the records of each architecture group are in table order,
\* open models before proprietary versions inside a family.
C12_RunTerminatesComplete ==
    [](C12_OneRecordPerItemInOrder) /\ <>(mode = "collect" /\ pc.phase = "returned")

\* C12 witness: the run has returned its three frames, holding the records of all 20
\* open models and all 12 proprietary versions, after one model's download failed.
C12_Witness ==
    /\ mode = "collect" /\ pc.phase = "returned"
    /\ Len(frames[1]) + Len(frames[2]) + Len(frames[3]) = Len(ConfiguredItems)
    /\ Len(ConfiguredItems) = 32
    /\ \E k \in 1..Len(frames[2]) : "Fehler" \in DOMAIN frames[2][k]
    /\ \E k \in 1..Len(frames[2]) : "Release-Datum" \in DOMAIN frames[2][k]

\* the configured items processed so far whose family has the Decoder-only class
ProcessedDecoderItems ==
    LET OfArch(item) == ARCHITECTURE_DEFS[item.family].info["architecture"] = <<"D","e","c","o","d","e","r","-","o","n","l","y">>
    IN  SelectSeq(SubSeq(ConfiguredItems, 1, ProcessedCount), OfArch)

\* the identifiers of the configured open models
OpenModelIds ==
    {ItemName(ConfiguredItems[k]) :
        k \in {h \in 1..Len(ConfiguredItems) : ConfiguredItems[h].phase = "huggingface"}}

\* C13: every record built for a proprietary version has the parameter value
\* "Not disclosed" with provenance "Not disclosed by <organization of the family>", a
\* training-data value that refers to the family's paper title and a training-data
\* provenance that contains the family's paper URL; no extractor call is made for a
\* proprietary model.
C13_ProprietaryNotDisclosed ==
    mode = "collect" =>
        /\ \A i \in 1..Len(ProcessedDecoderItems) :
              (ProcessedDecoderItems[i].phase = "versions" /\ i <= Len(decoder_only)) =>
                  LET record == decoder_only[i]
                      family == ARCHITECTURE_DEFS[ProcessedDecoderItems[i].family].family
                      info == ARCHITECTURE_DEFS[ProcessedDecoderItems[i].family].info
                  IN  /\ "Fehler" \notin DOMAIN record
                      /\ record["Modellname"] = Str(ItemName(ProcessedDecoderItems[i]))
                      /\ record["Anzahl Parameter"] = Str(<<"N","o","t"," ","d","i","s","c","l","o","s","e","d">>)
                      /\ record["Parameter Quelle"]
                            = Str(<<"N","o","t"," ","d","i","s","c","l","o","s","e","d"," ","b","y"," ">> \o info["organization"])
                      /\ Contains(record["Trainingsbasis"].v, PAPER_SOURCES[family].paper_title)
                      /\ Contains(record["Training Data Quelle"].v, PAPER_SOURCES[family].paper_url)
        /\ \A k \in 1..Len(invocations) : invocations[k].model \in OpenModelIds
        /\ Len(invocations) <= 2 * Len(outcomes)

\* C13 witness: the run returned, extractor calls were made for the open models, and
\* the record of the proprietary version "Claude 3 Opus" is not disclosed by Anthropic.
C13_Witness ==
    /\ mode = "collect" /\ pc.phase = "returned"
    /\ invocations # <<>>
    /\ \E k \in 1..Len(frames[2]) :
          /\ frames[2][k]["Modellname"] = Str(<<"C","l","a","u","d","e"," ","3"," ","O","p","u","s">>)
          /\ frames[2][k]["Anzahl Parameter"] = Str(<<"N","o","t"," ","d","i","s","c","l","o","s","e","d">>)
          /\ frames[2][k]["Parameter Quelle"] = Str(<<"N","o","t"," ","d","i","s","c","l","o","s","e","d"," ","b","y"," ","A","n","t","h","r","o","p","i","c">>)
          /\ "Release-Datum" \in DOMAIN frames[2][k]

\* the records filed under a model identifier, over the three lists
RecordsNamed(model_id) ==
    {record \in {encoder_only[k] : k \in 1..Len(encoder_only)}
                    \cup {decoder_only[k] : k \in 1..Len(decoder_only)}
                    \cup {encoder_decoder[k] : k \in 1..Len(encoder_decoder)} :
        record["Modellname"] = Str(model_id)}

\* the open models processed so far whose model info was fetched, whose card could not
\* be loaded and for which no later step failed
CardlessModels ==
    {i \in 1..Len(outcomes) : outcomes[i].outcome = Outcome("none", NoCard)}

\* C14: a missing model card is a handled absence: when the model-info fetch succeeds
\* and loading the card fails, the model has a normal record without error marker,
\* whose parameter fact is NOT_FOUND with the card-not-available provenance and whose
\* training-data fact is "Not specified" with the card-not-available provenance.
C14_MissingCardIsNoError ==
    mode = "collect" =>
        \A i \in CardlessModels :
            LET model_id == ARCHITECTURE_DEFS[outcomes[i].family].info["huggingface"][outcomes[i].index]["id"]
            IN  /\ RecordsNamed(model_id) # {}
                /\ \A record \in RecordsNamed(model_id) :
                      /\ "Fehler" \notin DOMAIN record
                      /\ record["Anzahl Parameter"] = Str(<<"N","o","t"," ","f","o","u","n","d"," ","i","n"," ","M","o","d","e","l"," ","C","a","r","d">>)
                      /\ record["Parameter Quelle"] = Str(<<"M","o","d","e","l"," ","C","a","r","d"," ","n","o","t"," ","a","v","a","i","l","a","b","l","e">>)
                      /\ record["Trainingsbasis"] = Str(<<"N","o","t"," ","s","p","e","c","i","f","i","e","d">>)
                      /\ record["Training Data Quelle"] = Str(<<"M","o","d","e","l"," ","C","a","r","d"," ","n","o","t"," ","a","v","a","i","l","a","b","l","e">>)

\* C14 witness: the card of "meta-llama/Llama-2-7b-hf" could not be loaded and the run
\* returned with a record for it.
C14_Witness ==
    /\ mode = "collect" /\ pc.phase = "returned"
    /\ \E i \in CardlessModels :
          /\ ARCHITECTURE_DEFS[outcomes[i].family].info["huggingface"][outcomes[i].index]["id"]
                = <<"m","e","t","a","-","l","l","a","m","a","/","L","l","a","m","a","-","2","-","7","b","-","h","f">>
          /\ \E record \in RecordsNamed(<<"m","e","t","a","-","l","l","a","m","a","/","L","l","a","m","a","-","2","-","7","b","-","h","f">>) :
                /\ record["Anzahl Parameter"] = Str(<<"N","o","t"," ","f","o","u","n","d"," ","i","n"," ","M","o","d","e","l"," ","C","a","r","d">>)
                /\ record["Lizenz"] = Str(NA)

---------------------------------------------------------------------------
(* Properties of the fact extractor, continued (checked under SpecExtract) *)

\* the card is absent, empty or the card-unavailable sentinel
CardAbsent == card_content = None \/ card_content.v = <<>> \/ card_content.v = CARD_UNAVAILABLE

\* metadata has a non-empty datasets list
DatasetsGiven == "datasets" \in DOMAIN card_metadata /\ card_metadata["datasets"].v # <<>>

\* the first five entries (fewer if the list is shorter) of the datasets list, in list
\* order, joined with ", "
FirstFiveJoined ==
    LET entries == card_metadata["datasets"].v
    IN  Concat(<<","," ">>, SubSeq(entries, 1, IF Len(entries) < 5 THEN Len(entries) ELSE 5))

DATASETS_PROVENANCE == <<"H","u","g","g","i","n","g"," ","F","a","c","e"," ","m","e","t","a","d","a","t","a",":"," ","'","d","a","t","a","s","e","t","s","'"," ","f","i","e","l","d">>

\* C15: when the card is absent or unavailable, extract_training_data_from_card returns
\* the first five entries of a non-empty metadata datasets list, joined with ", ", with
\* the metadata-datasets provenance, and ("Not specified", "Model Card not available")
\* when datasets is missing or empty.
C15_AbsentCardUsesDatasets ==
    (mode = "extract" /\ "training" \in called /\ CardAbsent) =>
        IF DatasetsGiven
        THEN training_result = Return(FirstFiveJoined, DATASETS_PROVENANCE)
        ELSE training_result = Return(<<"N","o","t"," ","s","p","e","c","i","f","i","e","d">>, <<"M","o","d","e","l"," ","C","a","r","d"," ","n","o","t"," ","a","v","a","i","l","a","b","l","e">>)

\* C16: with card text present in which no section pattern matches, the result is the
\* joined first five metadata datasets with the metadata-datasets provenance when the
\* list is non-empty, and otherwise ("Not specified in Model Card", "Model Card
\* checked, no training data info found"); a value taken from the card text takes
\* precedence over the metadata datasets.
C16_NoSectionUsesDatasets ==
    (mode = "extract" /\ "training" \in called /\ CardPresent) =>
        /\ (\A i \in 1..Len(sections) : ~SectionMatches(i)) =>
              IF DatasetsGiven
              THEN training_result = Return(FirstFiveJoined, DATASETS_PROVENANCE)
              ELSE training_result = Return(<<"N","o","t"," ","s","p","e","c","i","f","i","e","d"," ","i","n"," ","M","o","d","e","l"," ","C","a","r","d">>,
                                            <<"M","o","d","e","l"," ","C","a","r","d"," ","c","h","e","c","k","e","d",","," ","n","o"," ","t","r","a","i","n","i","n","g"," ","d","a","t","a"," ","i","n","f","o"," ","f","o","u","n","d">>)
        /\ (\E i \in 1..Len(sections) : SectionMatches(i) /\ SectionCaptureOf(i) # <<>>) =>
              /\ ~training_result.raised
              /\ training_result.source # DATASETS_PROVENANCE
              /\ \E i \in 1..Len(sections) : training_result.source = sections[i].source_desc

\* the section patterns whose provenance the training result carries
DecidingSections == {i \in 1..Len(sections) : training_result.source = sections[i].source_desc}

\* what group 1 of the i-th section pattern captured
RawCapture(i) ==
    LET match == Search(sections[i].pattern, card_content.v)
    IN  SubSeq(card_content.v, match.g1 + 1, match.end)

\* where group 1 of the i-th section pattern starts (0-based)
RawCaptureStart(i) == Search(sections[i].pattern, card_content.v).g1

\* s up to its first newline
UpToNewline(s) ==
    IF \E k \in 1..Len(s) : s[k] = "\n"
    THEN SubSeq(s, 1, (CHOOSE k \in 1..Len(s) : s[k] = "\n" /\ \A h \in 1..(k - 1) : s[h] # "\n") - 1)
    ELSE s

\* number of leading whitespace characters of s
LeadingWhitespace(s) ==
    IF \A k \in 1..Len(s) : s[k] \in Whitespace THEN Len(s)
    ELSE (CHOOSE k \in 1..Len(s) : s[k] \notin Whitespace /\ \A h \in 1..(k - 1) : s[h] \in Whitespace) - 1

\* number of trailing whitespace characters of s
TrailingWhitespace(s) ==
    IF \A k \in 1..Len(s) : s[k] \in Whitespace THEN Len(s)
    ELSE Len(s) - (CHOOSE k \in 1..Len(s) :
                      s[k] \notin Whitespace /\ \A h \in (k + 1)..Len(s) : s[h] \in Whitespace)

\* C17 as stated: a training-data value taken from card text is a prefix of the first
\* line of the captured body, has at most 200 characters, has exactly 200 characters
\* whenever the capture is longer than 200 characters, and starts at the start of the
\* matched section body.
C17_CaptureCutTo200 ==
    (mode = "extract" /\ "training" \in called /\ CardPresent /\ ~training_result.raised) =>
        \A i \in DecidingSections :
            LET value == training_result.value
            IN  /\ StartsWith(UpToNewline(RawCapture(i)), value)
                /\ Len(value) <= 200
                /\ Len(RawCapture(i)) > 200 => Len(value) = 200
                /\ value = SubSeq(card_content.v, RawCaptureStart(i) + 1, RawCaptureStart(i) + Len(value))

\* C17 amended: a training-data value taken from card text is the captured body with
\* surrounding whitespace stripped, cut to its first line and then to at most 200
\* characters: it is a prefix of that first line in the original character order,
\* equal to it when the line has at most 200 characters and of exactly 200 characters
\* when that first line is longer, and it starts at the first non-whitespace character
\* of the matched section body.
C17_StrippedFirstLineCutTo200 ==
    (mode = "extract" /\ "training" \in called /\ CardPresent /\ ~training_result.raised) =>
        \A i \in DecidingSections :
            LET value == training_result.value
                skipped == LeadingWhitespace(RawCapture(i))
                body == SubSeq(RawCapture(i), skipped + 1,
                               Len(RawCapture(i)) - TrailingWhitespace(RawCapture(i)))
                line == UpToNewline(body)
                from == RawCaptureStart(i) + skipped
            IN  /\ StartsWith(line, value)
                /\ Len(value) <= 200
                /\ Len(line) > 200 => Len(value) = 200
                /\ Len(line) <= 200 => value = line
                /\ value = SubSeq(card_content.v, from + 1, from + Len(value))

\* C17 witness: the first line of the section body has more than 200 characters and
\* the value is its first 200 characters.
C17_Witness ==
    /\ mode = "extract" /\ "training" \in called /\ CardPresent
    /\ \E i \in DecidingSections :
          /\ Len(UpToNewline(RawCapture(i))) > 200
          /\ Len(training_result.value) = 200
          /\ StartsWith(RawCapture(i), training_result.value)

\* s with every newline replaced by a space
NewlinesAsSpaces(s) == [k \in 1..Len(s) |-> IF s[k] = "\n" THEN " " ELSE s[k]]

\* the parameter pattern that decides: the first of the list that matches
DecidingPattern == CHOOSE i \in 1..Len(patterns) : ParamMatches(i) /\ \A h \in 1..(i - 1) : ~ParamMatches(h)

\* the card text from at most 50 characters before the deciding match to at most 50
\* characters after it, clipped at the ends of the text
ContextWindow ==
    LET match == Search(patterns[DecidingPattern].pattern, card_content.v)
        from == IF match.start > 50 THEN match.start - 50 ELSE 0
        to == IF match.end + 50 < Len(card_content.v) THEN match.end + 50 ELSE Len(card_content.v)
    IN  SubSeq(card_content.v, from + 1, to)

\* the matched substring of the deciding pattern
MatchedSubstring ==
    LET match == Search(patterns[DecidingPattern].pattern, card_content.v)
    IN  SubSeq(card_content.v, match.start + 1, match.end)

\* some parameter pattern matches the present card and the extractor was called
ParameterMatched ==
    /\ mode = "extract" /\ "params" \in called /\ CardPresent
    /\ \E i \in 1..Len(patterns) : ParamMatches(i)

\* C18 as stated: on a pattern match the value is the full matched substring, and the
\* provenance contains the returned value together with at most 50 characters of card
\* text before and after the match, clipped at the ends of the text, with every newline
\* of the window replaced by a space.
C18_ProvenanceQuotesValue ==
    ParameterMatched =>
        /\ params_result.value = MatchedSubstring
        /\ Contains(params_result.source, params_result.value)
        /\ params_result.source
              = patterns[DecidingPattern].source_desc \o <<":"," ","'">>
                    \o NewlinesAsSpaces(ContextWindow) \o <<".",".",".","'">>

\* C18 amended: on a pattern match the value is the full matched substring, and the
\* provenance contains the matched substring with its newlines replaced by spaces (so
\* the returned value itself only when the match spans no newline), together with at
\* most 50 characters of card text before and after the match, clipped at the ends of
\* the text, with every newline of the window replaced by a space.
C18_ProvenanceQuotesContext ==
    ParameterMatched =>
        /\ params_result.value = MatchedSubstring
        /\ Contains(params_result.source, NewlinesAsSpaces(params_result.value))
        /\ (\A k \in 1..Len(params_result.value) : params_result.value[k] # "\n")
              => Contains(params_result.source, params_result.value)
        /\ params_result.source
              = patterns[DecidingPattern].source_desc \o <<":"," ","'">>
                    \o NewlinesAsSpaces(ContextWindow) \o <<".",".",".","'">>

\* C18 witness: the match has more than 50 characters before it and more than 50 after
\* it, the window holds a newline, and the provenance quotes 50 characters on each side.
C18_Witness ==
    /\ ParameterMatched
    /\ LET match == Search(patterns[DecidingPattern].pattern, card_content.v)
       IN  /\ match.start > 50
           /\ match.end + 50 < Len(card_content.v)
           /\ Len(ContextWindow) = Len(MatchedSubstring) + 100
           /\ \E k \in 1..Len(ContextWindow) : ContextWindow[k] = "\n"
           /\ Contains(params_result.source, NewlinesAsSpaces(ContextWindow))

\* the size keywords of the tag fallback
SizeKeywords == {<<"b","a","s","e">>, <<"l","a","r","g","e">>, <<"s","m","a","l","l">>, <<"7","b">>, <<"1","3","b">>, <<"7","0","b">>}

\* the tags of the metadata, in list order (none when the key is missing)
TagsGiven == IF "tags" \in DOMAIN card_metadata THEN card_metadata["tags"].v ELSE <<>>

\* positions of the tags that contain a size keyword, case-insensitively
SizeTags ==
    {k \in 1..Len(TagsGiven) : \E size \in SizeKeywords : Contains(LowerStr(TagsGiven[k].v), size)}

\* C19: with card text present in which no parameter pattern matches, the tags are
\* scanned in list order and the result is ("Inferred from tags: <tag>", "Model
\* metadata tags") for the first tag that contains one of the size keywords; later
\* matching tags do not influence the result, and the tag fallback is reached only when
\* no text pattern matched.
C19_FirstSizeTagDecides ==
    (mode = "extract" /\ "params" \in called /\ CardPresent) =>
        /\ (\A i \in 1..Len(patterns) : ~ParamMatches(i)) =>
              /\ \A k \in SizeTags :
                    (\A h \in SizeTags : k <= h) =>
                        params_result = Return(<<"I","n","f","e","r","r","e","d"," ","f","r","o","m"," ","t","a","g","s",":"," ">> \o TagsGiven[k].v,
                                               <<"M","o","d","e","l"," ","m","e","t","a","d","a","t","a"," ","t","a","g","s">>)
              /\ SizeTags = {} => params_result = NOT_SPECIFIED
        /\ params_result.source = <<"M","o","d","e","l"," ","m","e","t","a","d","a","t","a"," ","t","a","g","s">> =>
              \A i \in 1..Len(patterns) : ~ParamMatches(i)

\* C19 witness: no pattern matches, two different tags contain a size keyword and the
\* first of them is the one reported.
C19_Witness ==
    /\ mode = "extract" /\ "params" \in called /\ CardPresent
    /\ \A i \in 1..Len(patterns) : ~ParamMatches(i)
    /\ \E k \in SizeTags : \E h \in SizeTags :
          /\ k < h /\ TagsGiven[k] # TagsGiven[h]
          /\ \A j \in SizeTags : k <= j
          /\ params_result.value = <<"I","n","f","e","r","r","e","d"," ","f","r","o","m"," ","t","a","g","s",":"," ">> \o TagsGiven[k].v

---------------------------------------------------------------------------
(* Properties of a collection run over the shipped tables: classification,  *)
(* references and grouping (checked under SpecCollect)                       *)

\* the open model identifiers listed by the f-th family of the collector's table
ListedIds(f) ==
    LET info == model_architectures[f].info
    IN  IF "huggingface" \in DOMAIN info
        THEN {info["huggingface"][j]["id"] : j \in 1..Len(info["huggingface"])}
        ELSE {}

\* the records of a list that download_hf_with_sources built without error
OpenRecords(records) ==
    {records[k] : k \in {h \in 1..Len(records) :
                            /\ "Fehler" \notin DOMAIN records[h]
                            /\ records[h]["Quelle"] = Str(<<"H","u","g","g","i","n","g"," ","F","a","c","e">>)}}

\* position of the first family of the collector's table whose lowercased name occurs
\* in the lowercased identifier (0: none)
FirstMatchingFamily(model_id) ==
    LET matching == {i \in 1..Len(model_architectures) :
                        Contains(LowerStr(model_id), LowerStr(model_architectures[i].family))}
    IN  IF matching = {} THEN 0 ELSE CHOOSE i \in matching : \A j \in matching : i <= j

\* C21: for every open model identifier listed in the shipped family table,
\* classify_architecture(identifier) is the architecture class of the family that lists
\* it, although family names overlap ("BERT" in RoBERTa/SciBERT/BioBERT identifiers,
\* "T5" in mT5 identifiers); so the "Architektur" field of every non-error open-model
\* record agrees with the architecture group the record was appended to.
C21_OpenModelClassMatchesFamily ==
    mode = "collect" =>
        /\ \A f \in 1..Len(model_architectures) : \A model_id \in ListedIds(f) :
              classify_architecture(model_architectures, model_id)
                  = model_architectures[f].info["architecture"]
        /\ \A record \in OpenRecords(encoder_only) :
              record["Architektur"] = Str(<<"E","n","c","o","d","e","r","-","o","n","l","y">>)
        /\ \A record \in OpenRecords(decoder_only) :
              record["Architektur"] = Str(<<"D","e","c","o","d","e","r","-","o","n","l","y">>)
        /\ \A record \in OpenRecords(encoder_decoder) :
              record["Architektur"] = Str(<<"E","n","c","o","d","e","r","-","D","e","c","o","d","e","r">>)

\* C21 witness: the run returned; the identifiers "FacebookAI/roberta-base" and
\* "google/mt5-small" are classified through an earlier family than the one that lists
\* them (BERT, T5), and their non-error records are in the Encoder-only and the
\* Encoder-Decoder group with that class in "Architektur".
C21_Witness ==
    /\ mode = "collect" /\ pc.phase = "returned"
    /\ \E f \in 1..Len(model_architectures) :
          /\ <<"F","a","c","e","b","o","o","k","A","I","/","r","o","b","e","r","t","a","-","b","a","s","e">> \in ListedIds(f)
          /\ FirstMatchingFamily(<<"F","a","c","e","b","o","o","k","A","I","/","r","o","b","e","r","t","a","-","b","a","s","e">>) \notin {0, f}
    /\ \E f \in 1..Len(model_architectures) :
          /\ <<"g","o","o","g","l","e","/","m","t","5","-","s","m","a","l","l">> \in ListedIds(f)
          /\ FirstMatchingFamily(<<"g","o","o","g","l","e","/","m","t","5","-","s","m","a","l","l">>) \notin {0, f}
    /\ \E record \in OpenRecords(frames[1]) :
          /\ record["Modellname"] = Str(<<"F","a","c","e","b","o","o","k","A","I","/","r","o","b","e","r","t","a","-","b","a","s","e">>)
          /\ record["Architektur"] = Str(<<"E","n","c","o","d","e","r","-","o","n","l","y">>)
    /\ \E record \in OpenRecords(frames[3]) :
          /\ record["Modellname"] = Str(<<"g","o","o","g","l","e","/","m","t","5","-","s","m","a","l","l">>)
          /\ record["Architektur"] = Str(<<"E","n","c","o","d","e","r","-","D","e","c","o","d","e","r">>)

\* the configured items processed so far whose family has the given architecture
\* class: the items whose records the list of that class holds, in order
ProcessedItems(arch) ==
    LET OfArch(item) == ARCHITECTURE_DEFS[item.family].info["architecture"] = arch
    IN  SelectSeq(SubSeq(ConfiguredItems, 1, ProcessedCount), OfArch)

\* the Paper fields of a record are those of the reference
CarriesReference(record, ref) ==
    /\ record["Paper Titel"] = Str(ref.paper_title)
    /\ record["Paper Authors"] = Str(ref.authors)
    /\ record["Paper URL"] = Str(ref.paper_url)

\* every non-error record of the list of one class carries the reference-table entry
\* keyed by the name of the family that lists its item
ReferencesOfOwnFamily(records, arch) ==
    \A i \in 1..Len(records) :
        (i <= Len(ProcessedItems(arch)) /\ "Fehler" \notin DOMAIN records[i]) =>
            LET family == ARCHITECTURE_DEFS[ProcessedItems(arch)[i].family].family
            IN  /\ records[i]["Modellname"] = Str(ItemName(ProcessedItems(arch)[i]))
                /\ family \in DOMAIN PAPER_SOURCES
                /\ CarriesReference(records[i], PAPER_SOURCES[family])

\* C22: in a collection run over the shipped tables get_paper_reference is only called
\* with a key of the family table and every call is answered by the exact-match branch,
\* never by the "llama-3" special case or the N/A sentinel; every non-error record
\* carries the reference-table entry keyed by its own family name, so the record of
\* meta-llama/Llama-3.1-8B carries the "Llama" entry and not the "Llama-3" entry.
C22_ReferenceByOwnFamilyKey ==
    mode = "collect" =>
        /\ \A k \in 1..Len(lookups) :
              /\ HasFamily(ARCHITECTURE_DEFS, lookups[k].family)
              /\ lookups[k].branch = "exact"
        /\ ReferencesOfOwnFamily(encoder_only, <<"E","n","c","o","d","e","r","-","o","n","l","y">>)
        /\ ReferencesOfOwnFamily(decoder_only, <<"D","e","c","o","d","e","r","-","o","n","l","y">>)
        /\ ReferencesOfOwnFamily(encoder_decoder, <<"E","n","c","o","d","e","r","-","D","e","c","o","d","e","r">>)
        /\ \A record \in RecordsNamed(<<"m","e","t","a","-","l","l","a","m","a","/","L","l","a","m","a","-","3",".","1","-","8","B">>) :
              "Fehler" \notin DOMAIN record =>
                  /\ CarriesReference(record, PAPER_SOURCES[<<"L","l","a","m","a">>])
                  /\ ~CarriesReference(record, PAPER_SOURCES[<<"L","l","a","m","a","-","3">>])

\* C22 witness: the run returned after reference lookups for open models and for
\* proprietary versions, and the non-error record of meta-llama/Llama-3.1-8B has the
\* title of the "Llama" entry while the table also has a "Llama-3" entry.
C22_Witness ==
    /\ mode = "collect" /\ pc.phase = "returned"
    /\ \E k \in 1..Len(lookups) : lookups[k].family = <<"L","l","a","m","a">>
    /\ \E k \in 1..Len(lookups) : lookups[k].family = <<"C","l","a","u","d","e">>
    /\ <<"L","l","a","m","a","-","3">> \in DOMAIN paper_sources
    /\ \E record \in RecordsNamed(<<"m","e","t","a","-","l","l","a","m","a","/","L","l","a","m","a","-","3",".","1","-","8","B">>) :
          /\ "Fehler" \notin DOMAIN record
          /\ record["Paper Titel"] = Str(<<"L","l","a","m","a"," ","2",":"," ","O","p","e","n"," ","F","o","u","n","d","a","t","i","o","n"," ","a","n","d"," ","F","i","n","e","-","T","u","n","e","d"," ","C","h","a","t"," ","M","o","d","e","l","s">>)

\* the records of a list, as a set
RecordSet(records) == {records[k] : k \in 1..Len(records)}

\* every record of the list of one class, the error-marker records too, carries the
\* name, description and year of the family that lists its item, a family of that class
DecoratedByFamilyOfClass(records, arch) ==
    /\ Len(records) = Len(ProcessedItems(arch))
    /\ \A i \in 1..Len(records) :
          LET family == ARCHITECTURE_DEFS[ProcessedItems(arch)[i].family].family
              info == ARCHITECTURE_DEFS[ProcessedItems(arch)[i].family].info
          IN  /\ info["architecture"] = arch
              /\ {"Modellname", "Modell-Familie", "Beschreibung", "Jahr"} \subseteq DOMAIN records[i]
              /\ records[i]["Modell-Familie"] = Str(family)
              /\ records[i]["Beschreibung"] = Str(info["description"])
              /\ records[i]["Jahr"] = info["year"]

\* C23: at every point of a collection run every record held in one of the three
\* architecture group lists, the error-marker records included, carries the family
\* name, description and year of a family of the table whose architecture class is the
\* class of that group; no record is placed in more than one group.
C23_RecordsDecoratedAndGroupedOnce ==
    mode = "collect" =>
        /\ DecoratedByFamilyOfClass(encoder_only, <<"E","n","c","o","d","e","r","-","o","n","l","y">>)
        /\ DecoratedByFamilyOfClass(decoder_only, <<"D","e","c","o","d","e","r","-","o","n","l","y">>)
        /\ DecoratedByFamilyOfClass(encoder_decoder, <<"E","n","c","o","d","e","r","-","D","e","c","o","d","e","r">>)
        /\ RecordSet(encoder_only) \cap RecordSet(decoder_only) = {}
        /\ RecordSet(encoder_only) \cap RecordSet(encoder_decoder) = {}
        /\ RecordSet(decoder_only) \cap RecordSet(encoder_decoder) = {}
        /\ Cardinality(RecordSet(encoder_only) \cup RecordSet(decoder_only)
                           \cup RecordSet(encoder_decoder))
              = Len(encoder_only) + Len(decoder_only) + Len(encoder_decoder)

\* C23 witness: in the middle of the run, inside the loop over the T5 models, all three
\* lists are non-empty and one of them holds an error-marker record that carries its
\* family's name, description and year.
C23_Witness ==
    /\ mode = "collect" /\ pc.phase = "huggingface"
    /\ ARCHITECTURE_DEFS[pc.family].family = <<"T","5">>
    /\ encoder_only # <<>> /\ decoder_only # <<>> /\ encoder_decoder # <<>>
    /\ \E record \in RecordSet(encoder_only) \cup RecordSet(decoder_only)
                        \cup RecordSet(encoder_decoder) :
          /\ "Fehler" \in DOMAIN record
          /\ {"Modell-Familie", "Beschreibung", "Jahr"} \subseteq DOMAIN record
          /\ record["Jahr"] \in {ARCHITECTURE_DEFS[f].info["year"] : f \in 1..Len(ARCHITECTURE_DEFS)}

---------------------------------------------------------------------------
(* Properties of a collection run over other tables (checked under           *)
(* SpecCollectTables)                                                        *)

\* the loops have gone past the item (family position, phase, index)
Passed(f, phase, j) ==
    \/ pc.phase \in {"done", "returned"}
    \/ f < pc.family
    \/ /\ f = pc.family
       /\ \/ phase = "huggingface" /\ pc.phase = "versions"
          \/ phase = pc.phase /\ j < pc.index

\* the items of one kind, "huggingface" or "versions", of the collector's table that
\* the loops have gone past
PassedItems(phase) ==
    UNION {{[family |-> f, index |-> j] :
               j \in {h \in 1..Len(model_architectures[f].info[phase]) : Passed(f, phase, h)}} :
           f \in {g \in 1..Len(model_architectures) : phase \in DOMAIN model_architectures[g].info}}

\* how many records of the list are filed under the name and carry the family
Filed(records, name, family) ==
    Cardinality({k \in 1..Len(records) :
                    /\ records[k]["Modellname"] = Str(name)
                    /\ records[k]["Modell-Familie"] = Str(family)})

\* how many records of the three lists, in the order Encoder-only, Decoder-only,
\* Encoder-Decoder, are filed under the name and carry the family
FiledPerGroup(name, family) ==
    <<Filed(encoder_only, name, family), Filed(decoder_only, name, family),
      Filed(encoder_decoder, name, family)>>

\* where a record of a family of the class is expected if it is appended once
GroupOf(arch) ==
    <<IF arch = <<"E","n","c","o","d","e","r","-","o","n","l","y">> THEN 1 ELSE 0, IF arch = <<"D","e","c","o","d","e","r","-","o","n","l","y">> THEN 1 ELSE 0,
      IF arch = <<"E","n","c","o","d","e","r","-","D","e","c","o","d","e","r">> THEN 1 ELSE 0>>

\* how many get_paper_reference calls were made for the family
LookupsFor(family) == Cardinality({k \in 1..Len(lookups) : lookups[k].family = family})

\* C24: in collect_all_architectures the record of a proprietary version is appended to
\* the output only when the architecture class of its family is Decoder-only; for a
\* family with proprietary versions and any other class the record is built and then
\* discarded and is in none of the three groups, whereas the records of open models
\* are appended for all three classes.
C24_VersionsKeptOnlyIfDecoderOnly ==
    mode = "collect" =>
        /\ \A item \in PassedItems("versions") :
              LET family == model_architectures[item.family].family
                  info == model_architectures[item.family].info
                  name == info["versions"][item.index]["name"]
              IN  /\ FiledPerGroup(name, family)
                        = IF info["architecture"] = <<"D","e","c","o","d","e","r","-","o","n","l","y">> THEN <<0, 1, 0>>
                          ELSE <<0, 0, 0>>
                  /\ LookupsFor(family)
                        >= Cardinality({v \in PassedItems("versions") : v.family = item.family})
        /\ \A item \in PassedItems("huggingface") :
              LET family == model_architectures[item.family].family
                  info == model_architectures[item.family].info
                  model_id == info["huggingface"][item.index]["id"]
              IN  /\ info["architecture"] \in VersionClasses
                  /\ FiledPerGroup(model_id, family) = GroupOf(info["architecture"])

\* C24 witness: the run returned for a table in which the proprietary family GPT-4 is
\* Encoder-only and the Encoder-Decoder family BART has open models and versions: the
\* records of three GPT-4 versions and of four BART versions were built and are in no
\* list, while open models are in all three lists.
C24_Witness ==
    /\ mode = "collect" /\ pc.phase = "returned"
    /\ InfoOf(model_architectures, <<"G","P","T","-","4">>)["architecture"] = <<"E","n","c","o","d","e","r","-","o","n","l","y">>
    /\ "versions" \in DOMAIN InfoOf(model_architectures, <<"B","A","R","T">>)
    /\ LookupsFor(<<"G","P","T","-","4">>) = 3
    /\ LookupsFor(<<"B","A","R","T">>) >= 4
    /\ \A k \in 1..3 : \A i \in 1..Len(frames[k]) : "Release-Datum" \notin DOMAIN frames[k][i]
    /\ frames[1] # <<>> /\ frames[2] # <<>> /\ frames[3] # <<>>
    /\ Cardinality(PassedItems("versions")) = 7

====
